---- MODULE Spec2Model ----
(***************************************************************************)
(* Session-replay relay (ws-event-server): the ConnectionHub               *)
(* (WebSocketService), the SessionRegistry (SessionService) and the        *)
(* write-behind Batcher with its Store (DatabaseService).                  *)
(*                                                                         *)
(* The server is a single Node.js process: every handler runs to its first *)
(* await without interleaving, so one action of the model is one handler   *)
(* (one inbound frame, one socket event, one timer callback, or one        *)
(* resumption of an awaiting processBatch).                                *)
(*                                                                         *)
(* Handlers are written as operators from a server state record to a       *)
(* server state record, so that a handler can call another one the way the *)
(* code does; an action applies one handler to the current state.          *)
(*                                                                         *)
(* Opaque payload that no modelled operation reads (userId, url, viewport, *)
(* referrer ...) is left out of the records; lastActivity, the one         *)
(* metadata field the server reads, is kept.  Events are opaque JSON       *)
(* values; the model numbers them 1, 2, 3 ... in the order the trackers    *)
(* produce them, so that loss, duplication and reordering are visible.     *)
(***************************************************************************)
EXTENDS Integers, Sequences, FiniteSets, TLC

(***************************************************************************)
(* Bounds of the model.                                                    *)
(***************************************************************************)
\* events the trackers produce in one run
MaxEvents == 3
\* events carried by one events_batch frame
MaxBatchLen == 2
\* session ids minted by the server (session_assigned) in one run
MaxGen == 1
\* batches enqueued for the Store in one run
MaxQueued == 4
\* largest configured MAX_EVENTS_PER_SESSION that Init tries (1 .. this)
MaxCfgEvents == 2
\* largest configured BATCH_SIZE that the Batcher specification tries
MaxCfgBatch == 2
\* timer periods that may elapse in one run of the timed specification
MaxTicks == 3
\* processBatch invocations that may be awaiting the Store at the same time
MaxInFlight == 2
\* transactions that the Store may begin in one run
MaxTx == 3
\* most handler bodies waiting at an await
MaxPending == 1
\* most cleanupOldSessions calls awaiting the Store
MaxCleanups == 1

(***************************************************************************)
(* Program constants.                                                      *)
(***************************************************************************)
\* WebSocketService.checkClientHeartbeats: timeSinceLastHeartbeat > 60000
HeartbeatTimeout == 60000
\* config.heartbeatInterval default
HeartbeatInterval == 30000
\* SessionService.cleanupOldSessions: maxAge = 24 * 60 * 60 * 1000
MaxAge == 86400000
\* config.batchSize default
DefaultBatchSize == 50
\* config.maxEventsPerSession, when MAX_EVENTS_PER_SESSION is not set
DefaultMaxEvents == 20000
PageLimit == 1000
\* milliseconds in an hour: INTERVAL '<maxAgeHours> hours'
HourMs == 3600000

(***************************************************************************)
(* Connections, session ids, values.                                       *)
(***************************************************************************)
Trackers == {"t1", "t2"}
Viewers == {"v1"}
Conns == Trackers \cup Viewers

\* the ?type= query parameter each connection slot connects with
ClientType(c) == IF c \in Viewers THEN "viewer" ELSE "tracker"

\* "no session id": client.sessionId undefined, data.sessionId missing
NoId == 0
\* ids that clients choose themselves
ClientIds == {1}
\* the n-th id minted by the server: `s_${Date.now()}_${randomUUID()}`,
\* different from every id seen before
GenId(n) == 100 + n
GenIds == {GenId(n) : n \in 1..(MaxGen + 1)}
AllIds == ClientIds \cup GenIds

NoClient == [type |-> "none"]
NoSession == [isActive |-> FALSE, absent |-> TRUE]

Min(a, b) == IF a < b THEN a ELSE b
Max(a, b) == IF a > b THEN a ELSE b

\* Array.prototype.slice(start) for a negative or zero start:
\* slice(-k) keeps the last k elements, and slice(-0) is slice(0), the
\* whole array
SliceFromEnd(arr, k) ==
    IF k = 0 THEN arr
    ELSE SubSeq(arr, Max(1, Len(arr) - k + 1), Len(arr))

\* Array.prototype.slice(from, to), 0-based, to exclusive; a negative index
\* counts from the end of the array
Slice(arr, from, to) ==
    LET lo == IF from < 0 THEN Max(Len(arr) + from, 0) ELSE Min(from, Len(arr))
        hi == IF to < 0 THEN Max(Len(arr) + to, 0) ELSE Min(to, Len(arr))
    IN SubSeq(arr, lo + 1, hi)

\* the integers lo .. hi as a sequence
Range(lo, hi) == [i \in 1..(hi - lo + 1) |-> lo + i - 1]

VARIABLES
    \* ---- configuration (process.env, read once at start-up)
    maxEventsPerSession,   \* config.maxEventsPerSession
    batchSize,             \* config.batchSize
    \* ---- process
    proc,                  \* "running" | "stopping" (FastifyServer.shutdown called)
                           \* | "exit0" | "exit1" (process.exit(code))
    timers,                \* which setInterval timers are armed
    \* ---- WebSocketService
    clients,               \* Map<WebSocket, ConnectedClient>: the value of each key
    order,                 \* Map<WebSocket, ConnectedClient>: its keys in insertion order
    readyState,            \* per socket: NONE (no socket), OPEN, CLOSING
    receiverEnded,         \* sockets that emit no further message, pong or error
    pending,               \* async handler bodies waiting at their await (microtasks)
    \* ---- SessionService
    sessions,              \* Map<string, SessionData>: the value of each key
    sessionOrder,          \* Map<string, SessionData>: its keys in insertion order
    \* ---- DatabaseService
    sessionBatchQueue,     \* SessionBatch[]
    flights,               \* processBatch invocations awaiting the Store
    pool,                  \* pg Pool: "open" | "ended"
    cleanups,              \* DatabaseService.cleanupOldSessions calls awaiting the Store
    app,                   \* Fastify: "open" | "closing" (app.close() called)
    \* ---- Store (PostgreSQL tables)
    tblSessions,           \* sessions: session_id -> row
    tblEvents,             \* session_events rows in insertion (id) order
    tblErrors,             \* session_errors rows in insertion order
    dbClock,               \* transactions begun so far
    \* ---- environment
    now,                   \* Date.now()
    nextGen,               \* ids minted so far
    nextEv,                \* events produced by trackers so far
    ticks,                 \* timer periods elapsed
    \* ---- observation
    sent,                  \* frames the server wrote to each socket in the last step
    queued,                \* batches pushed on sessionBatchQueue so far
    hist                   \* what an observer of the run remembers (see HistInit)

vars == <<maxEventsPerSession, batchSize, proc, timers, clients, order,
          readyState, receiverEnded, pending, sessions, sessionOrder,
          sessionBatchQueue,
          flights, pool, cleanups, app,
          tblSessions, tblEvents, tblErrors, dbClock,
          now, nextGen, nextEv, ticks, sent, queued, hist>>

(***************************************************************************)
(* The server state as one record, and back.  sent starts empty in every   *)
(* step: it holds what this step writes.                                   *)
(***************************************************************************)
NoSent == [c \in Conns |-> <<>>]

Cur ==
    [proc |-> proc, timers |-> timers,
     clients |-> clients, order |-> order, readyState |-> readyState,
     receiverEnded |-> receiverEnded,
     pending |-> pending,
     sessions |-> sessions, sessionOrder |-> sessionOrder,
     queue |-> sessionBatchQueue, flights |-> flights, pool |-> pool,
     cleanups |-> cleanups, app |-> app,
     tblSessions |-> tblSessions, tblEvents |-> tblEvents,
     tblErrors |-> tblErrors, dbClock |-> dbClock,
     nextGen |-> nextGen, sent |-> NoSent, queued |-> queued]

Commit(st) ==
    /\ proc' = st.proc
    /\ timers' = st.timers
    /\ clients' = st.clients
    /\ order' = st.order
    /\ readyState' = st.readyState
    /\ receiverEnded' = st.receiverEnded
    /\ pending' = st.pending
    /\ sessions' = st.sessions
    /\ sessionOrder' = st.sessionOrder
    /\ sessionBatchQueue' = st.queue
    /\ flights' = st.flights
    /\ pool' = st.pool
    /\ cleanups' = st.cleanups
    /\ app' = st.app
    /\ tblSessions' = st.tblSessions
    /\ tblEvents' = st.tblEvents
    /\ tblErrors' = st.tblErrors
    /\ dbClock' = st.dbClock
    /\ nextGen' = st.nextGen
    /\ sent' = st.sent
    /\ queued' = st.queued

(***************************************************************************)
(* DatabaseService: the enqueuing side.                                    *)
(***************************************************************************)
\* DatabaseService.processBatch up to its first await: the early return,
\* the splice of the queue head, and the call of pool.connect().  caller
\* names who awaits the promise: "timer" (startBatchProcessor), "enqueue"
\* (queueSessionBatch, which does not await it) or "shutdown"
ProcessBatch(st, caller) ==
    IF Len(st.queue) = 0 THEN st
    ELSE LET n == Min(batchSize, Len(st.queue))
         IN [st EXCEPT
               !.queue = SubSeq(@, n + 1, Len(@)),
               !.flights = Append(@, [entries |-> SubSeq(st.queue, 1, n),
                                      stage |-> "connect",
                                      stamp |-> 0,
                                      begunAt |-> 0,
                                      late |-> st.pool = "ended",
                                      caller |-> caller])]

\* queueSessionBatch as it would be if it forced a flush only above twice
\* the batch size
QueueSessionBatchAbove(st, batch) ==
    LET pushed == [st EXCEPT !.queue = Append(@, batch), !.queued = @ + 1]
    IN IF Len(pushed.queue) > batchSize * 2
       THEN ProcessBatch(pushed, "enqueue")
       ELSE pushed

\* DatabaseService.queueSessionBatch
QueueSessionBatch(st, batch) ==
    LET pushed == [st EXCEPT !.queue = Append(@, batch), !.queued = @ + 1]
    IN IF Len(pushed.queue) >= batchSize * 2
       THEN ProcessBatch(pushed, "enqueue")
       ELSE pushed

(***************************************************************************)
(* WebSocketService: outbound.                                             *)
(***************************************************************************)
\* ws.send on one socket: a frame written to a socket that is not OPEN is
\* not delivered
Send(st, c, msg) ==
    IF st.readyState[c] = "OPEN"
    THEN [st EXCEPT !.sent[c] = Append(@, msg)]
    ELSE st

\* broadcastToViewers as it would be without the client.type test: every
\* open client that passes the filter is sent the message
BroadcastToWatchers(st, msg, watched) ==
    [st EXCEPT !.sent = [c \in Conns |->
        IF /\ st.clients[c] # NoClient
           /\ st.readyState[c] = "OPEN"
           /\ (watched = NoId \/ watched \in st.clients[c].watchingSessions)
        THEN Append(st.sent[c], msg)
        ELSE st.sent[c]]]

\* WebSocketService.broadcastToViewers.  Its filter is either absent
\* (watched = NoId) or client.watchingSessions.has(watched).
BroadcastToViewers(st, msg, watched) ==
    [st EXCEPT !.sent = [c \in Conns |->
        IF /\ st.clients[c] # NoClient
           /\ st.clients[c].type = "viewer"
           /\ st.readyState[c] = "OPEN"
           /\ (watched = NoId \/ watched \in st.clients[c].watchingSessions)
        THEN Append(st.sent[c], msg)
        ELSE st.sent[c]]]

(***************************************************************************)
(* SessionService.                                                         *)
(***************************************************************************)
\* SessionService.getSession: sessions.get(sessionId)
GetSession(st, sid) ==
    IF sid \in AllIds THEN st.sessions[sid] ELSE NoSession

\* SessionService.queueSessionForDatabase.  createdAt (new Date()) is kept
\* as the number of the batch in the order of creation.
QueueSessionForDatabase(st, sid) ==
    QueueSessionBatch(st, [sessionId |-> sid, events |-> <<>>, errors |-> <<>>,
                           isActive |-> st.sessions[sid].isActive,
                           createdAt |-> st.queued + 1])

\* SessionService.queueEventsForDatabase
QueueEventsForDatabase(st, sid, events) ==
    QueueSessionBatch(st, [sessionId |-> sid, events |-> events, errors |-> <<>>,
                           isActive |-> st.sessions[sid].isActive,
                           createdAt |-> st.queued + 1])

\* SessionService.queueErrorForDatabase
QueueErrorForDatabase(st, sid, error) ==
    QueueSessionBatch(st, [sessionId |-> sid, events |-> <<>>, errors |-> <<error>>,
                           isActive |-> st.sessions[sid].isActive,
                           createdAt |-> st.queued + 1])

\* SessionService.createSession, with the sessionStarted listener of
\* WebSocketService.setupSessionListeners
CreateSession(st, sid) ==
    LET set == [st EXCEPT
                  !.sessions[sid] = [events |-> <<>>, errors |-> <<>>,
                                     isActive |-> TRUE, lastActivity |-> now],
                  !.sessionOrder = IF st.sessions[sid] = NoSession
                                   THEN Append(@, sid) ELSE @]
        enq == QueueSessionForDatabase(set, sid)
    IN BroadcastToViewers(enq, [type |-> "session_started", sessionId |-> sid],
                          NoId)

\* SessionService.updateSessionHeartbeat
UpdateSessionHeartbeat(st, sid) ==
    IF GetSession(st, sid) = NoSession THEN st
    ELSE [st EXCEPT !.sessions[sid].lastActivity = now]

\* the trim of SessionService.addEventsToSession
TrimEvents(events) ==
    IF Len(events) > maxEventsPerSession
    THEN SliceFromEnd(events, maxEventsPerSession \div 2)
    ELSE events

\* addEventsToSession as it would be if the eventsAdded listener sent the
\* session's buffer instead of the batch
AddEventsToSessionSendsBuffer(st, sid, events) ==
    IF GetSession(st, sid) = NoSession THEN st
    ELSE LET pushed == [st EXCEPT
                          !.sessions[sid].events = TrimEvents(@ \o events),
                          !.sessions[sid].lastActivity = now]
             enq == QueueEventsForDatabase(pushed, sid, events)
         IN BroadcastToViewers(enq,
                [type |-> "events_batch", sessionId |-> sid,
                 events |-> pushed.sessions[sid].events],
                sid)

\* SessionService.addEventsToSession, with the eventsAdded listener
AddEventsToSession(st, sid, events) ==
    IF GetSession(st, sid) = NoSession THEN st
    ELSE LET pushed == [st EXCEPT
                          !.sessions[sid].events = TrimEvents(@ \o events),
                          !.sessions[sid].lastActivity = now]
             enq == QueueEventsForDatabase(pushed, sid, events)
         IN BroadcastToViewers(enq,
                [type |-> "events_batch", sessionId |-> sid, events |-> events],
                sid)

\* SessionService.addErrorToSession (errorAdded has no listener)
AddErrorToSession(st, sid, error) ==
    IF GetSession(st, sid) = NoSession THEN st
    ELSE QueueErrorForDatabase(
            [st EXCEPT !.sessions[sid].errors = Append(@, error)], sid, error)

\* endSession as it would be if the sessionEnded listener broadcast to the
\* watchers of the session only
EndSessionToWatchers(st, sid) ==
    IF GetSession(st, sid) = NoSession THEN st
    ELSE LET ended == [st EXCEPT !.sessions[sid].isActive = FALSE]
             enq == QueueSessionForDatabase(ended, sid)
         IN BroadcastToViewers(enq, [type |-> "session_ended", sessionId |-> sid],
                               sid)

\* SessionService.endSession, with the sessionEnded listener
EndSession(st, sid) ==
    IF GetSession(st, sid) = NoSession THEN st
    ELSE LET ended == [st EXCEPT !.sessions[sid].isActive = FALSE]
             enq == QueueSessionForDatabase(ended, sid)
         IN BroadcastToViewers(enq, [type |-> "session_ended", sessionId |-> sid],
                               NoId)

\* getAllActiveSessions as it would be without the isActive filter
GetAllSessionsInMemory(st) ==
    {sid \in AllIds : st.sessions[sid] # NoSession}

\* SessionService.getAllActiveSessions
GetAllActiveSessions(st) ==
    {sid \in AllIds : st.sessions[sid] # NoSession /\ st.sessions[sid].isActive}

\* SessionService.getSessionEvents
GetSessionEvents(st, sid, fromIndex, limit) ==
    IF GetSession(st, sid) = NoSession THEN <<>>
    ELSE Slice(st.sessions[sid].events, fromIndex, fromIndex + limit)

(***************************************************************************)
(* WebSocketService: inbound frames.                                       *)
(***************************************************************************)
\* WebSocketService.sendError
SendError(st, c, text) ==
    Send(st, c, [type |-> "error", message |-> text])

\* WebSocketService.sendActiveSessions
SendActiveSessions(st, c) ==
    Send(st, c, [type |-> "active_sessions",
                 sessions |-> {[sessionId |-> sid,
                                eventCount |-> Len(st.sessions[sid].events),
                                errorCount |-> Len(st.sessions[sid].errors)]
                               : sid \in GetAllActiveSessions(st)}])

\* WebSocketService.handleSessionStart
HandleSessionStart(st, c, incomingId) ==
    LET client == st.clients[c]
        existing == IF incomingId # NoId THEN GetSession(st, incomingId)
                    ELSE NoSession
        conflict == \/ incomingId = NoId
                    \/ /\ existing # NoSession
                       /\ existing.isActive
                       /\ client.sessionId # incomingId
        assignedId == IF conflict THEN GenId(st.nextGen + 1) ELSE incomingId
        told == IF conflict
                THEN Send([st EXCEPT !.nextGen = @ + 1], c,
                          [type |-> "session_assigned", sessionId |-> assignedId])
                ELSE st
    IN IF client = NoClient \/ client.type # "tracker" THEN st
       ELSE CreateSession([told EXCEPT !.clients[c].sessionId = assignedId],
                          assignedId)

\* WebSocketService.handleEventsBatch
HandleEventsBatch(st, c, events) ==
    LET client == st.clients[c]
    IN IF client = NoClient \/ client.type # "tracker" \/ client.sessionId = NoId
       THEN st
       ELSE AddEventsToSession(st, client.sessionId, events)

\* WebSocketService.handleSessionEnd
HandleSessionEnd(st, sid) ==
    EndSession(st, sid)

\* an async handler body stops at its await: what it has computed so far
\* waits in the microtask queue
Await(st, kind, c, sid, fromIndex, events) ==
    [st EXCEPT !.pending = Append(@, [kind |-> kind, conn |-> c,
                                      sessionId |-> sid,
                                      fromIndex |-> fromIndex,
                                      events |-> events])]

\* handleViewerJoinSession as it would be if session_joined carried the
\* buffered events of the session
HandleViewerJoinSessionWithEvents(st, c, sid) ==
    LET client == st.clients[c]
        session == GetSession(st, sid)
        watching == [st EXCEPT !.clients[c].watchingSessions = @ \cup {sid}]
    IN IF client = NoClient THEN SendError(st, c, "Session not found")
       ELSE IF session # NoSession
       THEN Send(watching, c,
                 [type |-> "session_joined", sessionId |-> sid,
                  events |-> GetSessionEvents(st, sid, 0, PageLimit),
                  totalEvents |-> Len(session.events),
                  isActive |-> session.isActive])
       ELSE Await(watching, "session_joined", c, sid, 0,
                  GetSessionEvents(st, sid, 0, PageLimit))

\* WebSocketService.handleViewerJoinSession up to its return: the whole
\* body when the session is in memory, the part before
\* await getSessionEvents(...) when it is not
HandleViewerJoinSession(st, c, sid) ==
    LET client == st.clients[c]
        session == GetSession(st, sid)
        watching == [st EXCEPT !.clients[c].watchingSessions = @ \cup {sid}]
    IN IF client = NoClient THEN SendError(st, c, "Session not found")
       ELSE IF session # NoSession
       THEN Send(watching, c,
                 [type |-> "session_joined", sessionId |-> sid, events |-> <<>>,
                  totalEvents |-> Len(session.events),
                  isActive |-> session.isActive])
       ELSE Await(watching, "session_joined", c, sid, 0,
                  GetSessionEvents(st, sid, 0, PageLimit))

\* handleViewerJoinSession after its await: session was undefined before
\* the await, so isActive is false and totalEvents counts the page
SessionJoinedReply(st, p) ==
    Send(st, p.conn,
         [type |-> "session_joined", sessionId |-> p.sessionId, events |-> <<>>,
          totalEvents |-> Len(p.events), isActive |-> FALSE])

\* WebSocketService.handleViewerLeaveSession
HandleViewerLeaveSession(st, c, sid) ==
    IF st.clients[c] = NoClient THEN st
    ELSE [st EXCEPT !.clients[c].watchingSessions = @ \ {sid}]

\* WebSocketService.handleClientError
HandleClientError(st, c, errorData) ==
    LET client == st.clients[c]
    IN IF client = NoClient \/ client.sessionId = NoId THEN st
       ELSE AddErrorToSession(st, client.sessionId, errorData)

\* handleSessionEvent as it would be if the frame of a client without a
\* sessionId went to every viewer
HandleSessionEventOfIdle(st, c, msg) ==
    LET client == st.clients[c]
    IN IF client = NoClient THEN st
       ELSE BroadcastToViewers(st, msg, client.sessionId)

\* handleSessionEvent as it would be if it broadcast without a filter
HandleSessionEventToAll(st, c, msg) ==
    LET client == st.clients[c]
    IN IF client = NoClient \/ client.sessionId = NoId THEN st
       ELSE BroadcastToViewers(st, msg, NoId)

\* WebSocketService.handleSessionEvent
HandleSessionEvent(st, c, msg) ==
    LET client == st.clients[c]
    IN IF client = NoClient \/ client.sessionId = NoId THEN st
       ELSE BroadcastToViewers(st, msg, client.sessionId)

\* WebSocketService.handleGetSessionEvents up to its return: the page is
\* read, and the body stops at the await
HandleGetSessionEvents(st, c, sid, fromIndex) ==
    Await(st, "session_events", c, sid, fromIndex,
          GetSessionEvents(st, sid, fromIndex, PageLimit))

\* handleGetSessionEvents after its await: the session is looked up now,
\* the page was read before
SessionEventsReply(st, p) ==
    LET session == GetSession(st, p.sessionId)
        totalEvents == IF session # NoSession THEN Len(session.events)
                       ELSE p.fromIndex + Len(p.events)
    IN Send(st, p.conn,
            [type |-> "session_events", sessionId |-> p.sessionId,
             events |-> p.events, fromIndex |-> p.fromIndex,
             totalEvents |-> totalEvents,
             hasMore |-> p.fromIndex + Len(p.events) < totalEvents])

\* the microtask queue is drained: every waiting handler body runs on, in
\* the order of the awaits
RECURSIVE RunMicrotasks(_)
RunMicrotasks(st) ==
    IF st.pending = <<>> THEN st
    ELSE LET p == Head(st.pending)
             rest == [st EXCEPT !.pending = Tail(@)]
         IN RunMicrotasks(IF p.kind = "session_events"
                          THEN SessionEventsReply(rest, p)
                          ELSE SessionJoinedReply(rest, p))

\* the switch of WebSocketService.handleMessage
Dispatch(st, c, msg) ==
    CASE msg.type = "session_start" -> HandleSessionStart(st, c, msg.sessionId)
      [] msg.type = "events_batch" -> HandleEventsBatch(st, c, msg.events)
      [] msg.type = "session_end" -> HandleSessionEnd(st, msg.sessionId)
      [] msg.type = "viewer_join_session" ->
            HandleViewerJoinSession(st, c, msg.sessionId)
      [] msg.type = "viewer_leave_session" ->
            HandleViewerLeaveSession(st, c, msg.sessionId)
      [] msg.type = "get_active_sessions" -> SendActiveSessions(st, c)
      [] msg.type = "get_session_events" ->
            HandleGetSessionEvents(st, c, msg.sessionId, msg.fromIndex)
      [] msg.type = "heartbeat" -> st
      [] msg.type = "error" -> HandleClientError(st, c, msg.data)
      [] msg.type \in {"visibility_change", "javascript_error",
                       "promise_rejection"} -> HandleSessionEvent(st, c, msg)
      [] OTHER -> st

\* handleMessage as it would be if a frame that JSON.parse rejects were
\* dropped like a frame of unknown type
HandleMessageDropsUnparsable(st, c, msg) ==
    IF st.clients[c] = NoClient THEN st
    ELSE Dispatch([st EXCEPT !.clients[c].lastHeartbeat = now], c, msg)

\* WebSocketService.handleMessage; a frame that JSON.parse rejects is
\* msg = [type |-> "unparsable"]
HandleMessage(st, c, msg) ==
    IF msg.type = "unparsable" THEN SendError(st, c, "Invalid message format")
    ELSE IF st.clients[c] = NoClient THEN st
    ELSE Dispatch([st EXCEPT !.clients[c].lastHeartbeat = now], c, msg)

(***************************************************************************)
(* WebSocketService: socket events and the heartbeat timer.                *)
(***************************************************************************)
\* Map.delete(key) of the clients map
DeleteClient(st, c) ==
    [st EXCEPT !.clients[c] = NoClient,
               !.order = SelectSeq(@, LAMBDA k : k # c)]

\* WebSocketService.handleConnection (the socket is OPEN when it is called)
HandleConnection(st, c, clientType) ==
    LET added == [st EXCEPT
                    !.clients[c] = [type |-> clientType, sessionId |-> NoId,
                                    lastHeartbeat |-> now,
                                    watchingSessions |-> {}],
                    !.order = Append(@, c)]
    IN IF clientType = "viewer" THEN SendActiveSessions(added, c) ELSE added

\* handleClientDisconnect as it would be without its clients.delete(ws)
HandleClientDisconnectKeepsClient(st, c) ==
    LET client == st.clients[c]
    IN IF client # NoClient /\ client.type = "tracker"
          /\ client.sessionId # NoId
       THEN EndSession(st, client.sessionId)
       ELSE st

\* WebSocketService.handleClientDisconnect
HandleClientDisconnect(st, c) ==
    LET client == st.clients[c]
        ended == IF client # NoClient /\ client.type = "tracker"
                    /\ client.sessionId # NoId
                 THEN EndSession(st, client.sessionId)
                 ELSE st
    IN DeleteClient(ended, c)

\* the ws.on("error") listener of setupWebSocketHandlers
OnError(st, c) ==
    DeleteClient(st, c)

\* the ws.on("pong") listener of setupWebSocketHandlers
OnPong(st, c) ==
    IF st.clients[c] = NoClient THEN st
    ELSE [st EXCEPT !.clients[c].lastHeartbeat = now]

\* the stale sockets as they would be if the test were >= 60000
StaleClientsAtTimeout(st) ==
    SelectSeq(st.order, LAMBDA c : now - st.clients[c].lastHeartbeat >= HeartbeatTimeout)

\* the first loop of checkClientHeartbeats: the stale sockets, in the
\* iteration order of the clients map
StaleClients(st) ==
    SelectSeq(st.order, LAMBDA c : now - st.clients[c].lastHeartbeat > HeartbeatTimeout)

\* the second loop of checkClientHeartbeats: handleClientDisconnect and
\* ws.terminate() for each stale socket; terminate destroys the connection
\* and leaves the socket CLOSING until its close event is emitted
RECURSIVE DisconnectStale(_, _)
DisconnectStale(st, stale) ==
    IF stale = <<>> THEN st
    ELSE LET c == Head(stale)
             gone == HandleClientDisconnect(st, c)
         IN DisconnectStale([gone EXCEPT !.readyState[c] = "CLOSING",
                                         !.receiverEnded = @ \cup {c}],
                            Tail(stale))

\* the pings of the first loop of checkClientHeartbeats
RECURSIVE PingFresh(_, _)
PingFresh(st, cs) ==
    IF cs = <<>> THEN st
    ELSE LET c == Head(cs)
         IN PingFresh(
              IF now - st.clients[c].lastHeartbeat > HeartbeatTimeout THEN st
              ELSE Send(st, c, [type |-> "ping"]),
              Tail(cs))

\* WebSocketService.checkClientHeartbeats
CheckClientHeartbeats(st) ==
    DisconnectStale(PingFresh(st, st.order), StaleClients(st))

(***************************************************************************)
(* SessionService: the cleanup timer.  DatabaseService.cleanupOldSessions  *)
(* is a single DELETE; its rows cascade.                                   *)
(***************************************************************************)
NoRow == [is_active |-> FALSE, absent |-> TRUE]

\* DatabaseService.cleanupOldSessions(maxAgeHours): DELETE FROM sessions
\* WHERE is_active = false AND updated_at < CURRENT_TIMESTAMP - maxAge,
\* with ON DELETE CASCADE on session_events and session_errors
StoreCleanupOldSessions(st, maxAge) ==
    LET Old(sid) == /\ st.tblSessions[sid] # NoRow
                    /\ ~st.tblSessions[sid].is_active
                    /\ st.tblSessions[sid].updated_at < now - maxAge
    IN [st EXCEPT
          !.tblSessions = [sid \in AllIds |-> IF Old(sid) THEN NoRow ELSE @[sid]],
          !.tblEvents = SelectSeq(@, LAMBDA row : ~Old(row.session_id)),
          !.tblErrors = SelectSeq(@, LAMBDA row : ~Old(row.session_id))]

\* DatabaseService.cleanupOldSessions(maxAgeHours) up to its first await,
\* pool.connect(); caller is "timer" (SessionService.cleanupOldSessions,
\* which does not await the promise) or "route" (DELETE /sessions/cleanup)
StartCleanup(st, maxAge, caller) ==
    [st EXCEPT !.cleanups = Append(@, [maxAge |-> maxAge, caller |-> caller,
                                       late |-> st.pool = "ended"])]

\* cleanupOldSessions as it would be if a session were evicted from the
\* age of 24 hours on, not only past it
CleanupOldSessionsFromAge(st) ==
    LET Evict(sid) == /\ st.sessions[sid] # NoSession
                      /\ ~st.sessions[sid].isActive
                      /\ now - st.sessions[sid].lastActivity >= MaxAge
        swept == [st EXCEPT
                    !.sessions = [sid \in AllIds |->
                                     IF Evict(sid) THEN NoSession ELSE @[sid]],
                    !.sessionOrder = SelectSeq(@, LAMBDA sid : ~Evict(sid))]
    IN StartCleanup(swept, MaxAge, "timer")

\* SessionService.cleanupOldSessions: the sweep of the registry, and the
\* call of dbService.cleanupOldSessions(24) that it does not await
CleanupOldSessions(st) ==
    LET Evict(sid) == /\ st.sessions[sid] # NoSession
                      /\ ~st.sessions[sid].isActive
                      /\ now - st.sessions[sid].lastActivity > MaxAge
        swept == [st EXCEPT
                    !.sessions = [sid \in AllIds |->
                                     IF Evict(sid) THEN NoSession ELSE @[sid]],
                    !.sessionOrder = SelectSeq(@, LAMBDA sid : ~Evict(sid))]
    IN StartCleanup(swept, MaxAge, "timer")

(***************************************************************************)
(* DatabaseService.processBatch after its first await, one resumption per  *)
(* operator.  A transaction's writes become visible at COMMIT, all at      *)
(* once; CURRENT_TIMESTAMP is the start time of the transaction, so every  *)
(* row written by one processBatch carries the same created_at.            *)
(***************************************************************************)
RemoveAt(seq, i) == SubSeq(seq, 1, i - 1) \o SubSeq(seq, i + 1, Len(seq))

\* the loop body of processBatch as it would be if the upsert left an
\* existing row alone (ON CONFLICT DO NOTHING)
ApplyBatchKeepsRow(st, batch, stamp, begunAt) ==
    LET upserted == IF st.tblSessions[batch.sessionId] # NoRow THEN st
                    ELSE [st EXCEPT !.tblSessions[batch.sessionId] =
                            [is_active |-> batch.isActive, updated_at |-> begunAt]]
        evRows == IF Len(batch.events) > 0
                  THEN <<[session_id |-> batch.sessionId,
                          events |-> batch.events,
                          event_count |-> Len(batch.events),
                          created_at |-> stamp]>>
                  ELSE <<>>
        errRows == [k \in 1..Len(batch.errors) |->
                       [session_id |-> batch.sessionId,
                        error_data |-> batch.errors[k]]]
    IN [upserted EXCEPT !.tblEvents = @ \o evRows, !.tblErrors = @ \o errRows]

\* the loop body of processBatch as it would be without the test for
\* events: an entry without events writes an empty event row
ApplyBatchWritesEmptyRow(st, batch, stamp, begunAt) ==
    LET upserted == [st EXCEPT !.tblSessions[batch.sessionId] =
                        [is_active |-> batch.isActive, updated_at |-> begunAt]]
        evRows == <<[session_id |-> batch.sessionId,
                     events |-> batch.events,
                     event_count |-> Len(batch.events),
                     created_at |-> stamp]>>
        errRows == [k \in 1..Len(batch.errors) |->
                       [session_id |-> batch.sessionId,
                        error_data |-> batch.errors[k]]]
    IN [upserted EXCEPT !.tblEvents = @ \o evRows, !.tblErrors = @ \o errRows]

\* the writes of the for loop of processBatch for one queue entry; stamp
\* orders the transactions by their start, begunAt is that start on the
\* wall clock
ApplyBatch(st, batch, stamp, begunAt) ==
    LET upserted == [st EXCEPT !.tblSessions[batch.sessionId] =
                        [is_active |-> batch.isActive, updated_at |-> begunAt]]
        evRows == IF Len(batch.events) > 0
                  THEN <<[session_id |-> batch.sessionId,
                          events |-> batch.events,
                          event_count |-> Len(batch.events),
                          created_at |-> stamp]>>
                  ELSE <<>>
        errRows == [k \in 1..Len(batch.errors) |->
                       [session_id |-> batch.sessionId,
                        error_data |-> batch.errors[k]]]
    IN [upserted EXCEPT !.tblEvents = @ \o evRows, !.tblErrors = @ \o errRows]

RECURSIVE ApplyBatches(_, _, _, _)
ApplyBatches(st, entries, stamp, begunAt) ==
    IF entries = <<>> THEN st
    ELSE ApplyBatches(ApplyBatch(st, Head(entries), stamp, begunAt),
                      Tail(entries), stamp, begunAt)

\* pool.connect() resolved and BEGIN succeeded
Connected(st, i) ==
    [st EXCEPT !.flights[i].stage = "tx",
               !.flights[i].stamp = st.dbClock + 1,
               !.flights[i].begunAt = now,
               !.dbClock = @ + 1]

\* every query of the try block succeeded, COMMIT included
Committed(st, i) ==
    [ApplyBatches(st, st.flights[i].entries, st.flights[i].stamp,
                  st.flights[i].begunAt)
        EXCEPT !.flights = RemoveAt(@, i)]

\* a query of the try block threw and the ROLLBACK of the catch block
\* succeeded: sessionBatchQueue.unshift(...batchToProcess)
RolledBack(st, i) ==
    [st EXCEPT !.queue = st.flights[i].entries \o @,
               !.flights = RemoveAt(@, i)]

\* processBatch threw: pool.connect() rejected (it is called before the
\* try block), or a query threw and the ROLLBACK of the catch block threw
\* as well (the unshift that follows it is not reached)
Threw(st, i) ==
    [st EXCEPT !.flights = RemoveAt(@, i)]

(***************************************************************************)
(* Shutdown.                                                               *)
(***************************************************************************)
\* WebSocketService.shutdown: ws.close() leaves a socket CLOSING until its
\* close event
WsShutdown(st) ==
    [st EXCEPT !.timers.heartbeat = FALSE,
               !.readyState = [c \in Conns |->
                    IF st.clients[c] # NoClient /\ @[c] = "OPEN"
                    THEN "CLOSING" ELSE @[c]]]

RECURSIVE QueueAllSessions(_, _)
QueueAllSessions(st, sids) ==
    IF sids = <<>> THEN st
    ELSE QueueAllSessions(QueueSessionForDatabase(st, Head(sids)), Tail(sids))

\* SessionService.shutdown
SessionShutdown(st) ==
    QueueAllSessions([st EXCEPT !.timers.cleanup = FALSE], st.sessionOrder)

\* pool.end() is called: the pool hands out no more clients, and the
\* promise resolves once every client that is checked out is released
\* (a second pool.end() rejects, and the catch of index.ts calls
\* process.exit(1))
PoolEnd(st) ==
    IF st.pool = "ended" THEN [st EXCEPT !.proc = "exit1"]
    ELSE [st EXCEPT !.pool = "ended"]

\* DatabaseService.shutdown up to its first await
DbShutdown(st) ==
    LET stopped == [st EXCEPT !.timers.batch = FALSE]
    IN IF Len(stopped.queue) > 0
       THEN ProcessBatch(stopped, "shutdown")
       ELSE PoolEnd(stopped)

\* FastifyServer.shutdown up to its first await, as called by the signal
\* and unhandledRejection handlers of index.ts
ServerShutdown(st) ==
    DbShutdown(SessionShutdown(WsShutdown([st EXCEPT !.proc = "stopping"])))

\* what follows the end of processBatch in its caller.  Resolved for
\* DatabaseService.shutdown: pool.end() is called.
AfterResolve(st, caller) ==
    IF caller = "shutdown" THEN PoolEnd(st) ELSE st

\* pool.end() resolved: DatabaseService.shutdown returns, and
\* FastifyServer.shutdown calls app.close() and awaits it
PoolEnded(st) ==
    [st EXCEPT !.app = "closing"]

\* app.close() resolved: FastifyServer.shutdown returns and the shutdown
\* of index.ts calls process.exit(0)
AppClosed(st) ==
    [st EXCEPT !.proc = "exit0"]

\* Rejected for DatabaseService.shutdown: the catch of index.ts calls
\* process.exit(1).  Rejected for the timer or for queueSessionBatch: no
\* one handles the rejection, and the unhandledRejection handler of
\* index.ts calls shutdown.
AfterReject(st, caller) ==
    IF caller = "shutdown" THEN [st EXCEPT !.proc = "exit1"]
    ELSE ServerShutdown(st)

\* cleanupOldSessions i: pool.connect() resolved and the DELETE ran; the
\* Store compares updated_at with its clock at that moment
CleanupDone(st, i) ==
    [StoreCleanupOldSessions(st, st.cleanups[i].maxAge)
        EXCEPT !.cleanups = RemoveAt(@, i)]

\* cleanupOldSessions i: pool.connect() or the DELETE rejected.  The route
\* catches the rejection and replies 500; no one awaits the promise of the
\* timer's call, and the unhandledRejection handler of index.ts calls
\* shutdown.
CleanupFailed(st, i) ==
    LET gone == [st EXCEPT !.cleanups = RemoveAt(@, i)]
    IN IF st.cleanups[i].caller = "timer" THEN ServerShutdown(gone) ELSE gone

(***************************************************************************)
(* Initial state: the process has started (the three services are          *)
(* constructed, their timers armed), nothing is connected.                 *)
(***************************************************************************)
\* what an observer of the run remembers; no handler reads it
HistInit ==
    [terminated |-> {},      \* sockets that checkClientHeartbeats terminated
     reentered |-> {},       \* ... and whose close event has been handled since
     beatEnded |-> {},       \* sessions that were active when their tracker was terminated
     committed |-> {},       \* createdAt of the batches some COMMIT made durable
     lost |-> {},            \* createdAt of the batches a processBatch that threw dropped
     owner |-> [sid \in AllIds |-> "none"],  \* whose session_start last created sid
     submitted |-> [sid \in AllIds |-> <<>>],  \* the events queued for sid, in order
     running |-> {},         \* ids started by a session_start, no session_end frame since
     atShutdown |-> -1,      \* batches created before DatabaseService.shutdown was called
     storeFailed |-> FALSE,  \* a Store operation failed after shutdown was called
     requeued |-> FALSE]     \* the catch block of a processBatch has re-queued its entries

InitServer ==
    /\ proc = "running"
    /\ timers = [heartbeat |-> TRUE, cleanup |-> TRUE, batch |-> TRUE]
    /\ clients = [c \in Conns |-> NoClient]
    /\ order = <<>>
    /\ readyState = [c \in Conns |-> "NONE"]
    /\ receiverEnded = {}
    /\ pending = <<>>
    /\ sessions = [sid \in AllIds |-> NoSession]
    /\ sessionOrder = <<>>
    /\ sessionBatchQueue = <<>>
    /\ flights = <<>>
    /\ pool = "open"
    /\ cleanups = <<>>
    /\ app = "open"
    /\ tblSessions = [sid \in AllIds |-> NoRow]
    /\ tblEvents = <<>>
    /\ tblErrors = <<>>
    /\ dbClock = 0
    /\ now = 0
    /\ nextGen = 0
    /\ nextEv = 0
    /\ ticks = 0
    /\ sent = NoSent
    /\ queued = 0
    /\ hist = HistInit

(***************************************************************************)
(* Actions: one handler applied to the current state.  A step is taken     *)
(* only while the run stays within the bounds of the model.                *)
(***************************************************************************)
Alive == proc \in {"running", "stopping"}

\* a callback of the event loop can start: no handler body waits in the
\* microtask queue
Turn == Alive /\ pending = <<>>

\* the message and pong events of the frames that reach socket c in one
\* chunk are emitted one after the other, before any microtask runs
SameChunk(c) == \A k \in 1..Len(pending) : pending[k].conn = c

Step(st, h) ==
    /\ st.queued <= MaxQueued
    /\ Len(st.flights) <= MaxInFlight
    /\ st.nextGen <= MaxGen
    /\ st.dbClock <= MaxTx
    /\ Len(st.pending) <= MaxPending
    /\ Len(st.cleanups) <= MaxCleanups
    /\ Commit(st)
    /\ hist' = IF proc = "running" /\ st.proc # "running"
               THEN [h EXCEPT !.atShutdown = st.queued]
               ELSE h
    /\ UNCHANGED <<maxEventsPerSession, batchSize>>

\* what the observer notes of a frame that socket c sends, st being the
\* state the handler leaves: who started which id, which ids have been
\* started and not ended by a frame since, and the events that were queued
Seen(c, msg, st) ==
    LET client == clients[c]
        tracker == client # NoClient /\ client.type = "tracker"
    IN CASE msg.type = "session_start" /\ tracker ->
               [hist EXCEPT !.owner[st.clients[c].sessionId] = c,
                            !.running = @ \cup {st.clients[c].sessionId}]
         [] msg.type = "session_end" ->
               [hist EXCEPT !.running = @ \ {msg.sessionId}]
         [] /\ msg.type = "events_batch" /\ tracker
            /\ client.sessionId # NoId
            /\ sessions[client.sessionId] # NoSession ->
               [hist EXCEPT !.submitted[client.sessionId] = @ \o msg.events]
         [] OTHER -> hist

\* a socket is accepted on /ws; the server listens until app.close()
Connect(c) ==
    /\ Turn
    /\ app = "open"
    /\ readyState[c] = "NONE"
    /\ Step(HandleConnection([Cur EXCEPT !.readyState[c] = "OPEN"], c, ClientType(c)),
            [hist EXCEPT !.terminated = @ \ {c}, !.reentered = @ \ {c},
                         !.owner = [sid \in AllIds |->
                                       IF @[sid] = c THEN "none" ELSE @[sid]]])
    /\ UNCHANGED <<now, ticks, nextEv>>

\* the message event of a socket, for a frame without fresh events; a
\* socket the server is closing still receives what the peer sends
Frame(c, msg) ==
    /\ Alive
    /\ SameChunk(c)
    /\ readyState[c] \in {"OPEN", "CLOSING"}
    /\ c \notin receiverEnded
    /\ LET st == HandleMessage(Cur, c, msg)
       IN Step(st, Seen(c, msg, st))
    /\ UNCHANGED <<now, ticks, nextEv>>

\* the message event for an events_batch frame carrying the next n events
EventsBatchFrame(c, n) ==
    /\ Alive
    /\ SameChunk(c)
    /\ readyState[c] \in {"OPEN", "CLOSING"}
    /\ c \notin receiverEnded
    /\ nextEv + n <= MaxEvents
    /\ LET msg == [type |-> "events_batch",
                   events |-> Range(nextEv + 1, nextEv + n)]
           st == HandleMessage(Cur, c, msg)
       IN Step(st, Seen(c, msg, st))
    /\ nextEv' = nextEv + n
    /\ UNCHANGED <<now, ticks>>

\* the peer's close frame is read: ws answers it and ends the receiver; the
\* socket is CLOSING and its client stays registered until the close event
CloseFrame(c) ==
    /\ Alive
    /\ SameChunk(c)
    /\ readyState[c] \in {"OPEN", "CLOSING"}
    /\ c \notin receiverEnded
    /\ Step([Cur EXCEPT !.readyState[c] = "CLOSING",
                        !.receiverEnded = @ \cup {c}], hist)
    /\ UNCHANGED <<now, ticks, nextEv>>

\* the close event of a socket: the connection of an open socket is lost,
\* or the close that follows a close frame, an error, ws.terminate() or
\* ws.close()
CloseEvent(c) ==
    /\ Turn
    /\ readyState[c] \in {"OPEN", "CLOSING"}
    /\ Step([HandleClientDisconnect(Cur, c) EXCEPT !.readyState[c] = "NONE",
                                                   !.receiverEnded = @ \ {c}],
            [hist EXCEPT !.reentered = IF c \in hist.terminated
                                       THEN @ \cup {c} ELSE @])
    /\ UNCHANGED <<now, ticks, nextEv>>

\* the error event of a socket: a frame the receiver rejects.  ws emits it
\* on process.nextTick, ahead of the handler bodies that wait at an await,
\* ends the receiver and closes the socket
ErrorEvent(c) ==
    /\ Alive
    /\ SameChunk(c)
    /\ readyState[c] \in {"OPEN", "CLOSING"}
    /\ c \notin receiverEnded
    /\ Step([OnError(Cur, c) EXCEPT !.readyState[c] = "CLOSING",
                                    !.receiverEnded = @ \cup {c}], hist)
    /\ UNCHANGED <<now, ticks, nextEv>>

\* the pong event of a socket
PongEvent(c) ==
    /\ Alive
    /\ SameChunk(c)
    /\ readyState[c] \in {"OPEN", "CLOSING"}
    /\ c \notin receiverEnded
    /\ Step(OnPong(Cur, c), hist)
    /\ UNCHANGED <<now, ticks, nextEv>>

\* the handler bodies that wait at an await run on, once the callbacks of
\* the current turn have returned
Microtasks ==
    /\ Alive
    /\ pending # <<>>
    /\ Step(RunMicrotasks(Cur), hist)
    /\ UNCHANGED <<now, ticks, nextEv>>

\* one heartbeat period passes on the clock
Tick ==
    /\ Turn
    /\ ticks < MaxTicks
    /\ now' = now + HeartbeatInterval
    /\ ticks' = ticks + 1
    /\ sent' = NoSent
    /\ UNCHANGED <<maxEventsPerSession, batchSize, proc, timers, clients, order,
                   readyState, receiverEnded, pending, sessions, sessionOrder,
                   sessionBatchQueue, flights, pool, cleanups, app,
                   tblSessions, tblEvents, tblErrors, dbClock,
                   nextGen, nextEv, queued, hist>>

\* a day passes on the clock (the age limit of the cleanup)
TickDay ==
    /\ Turn
    /\ ticks < MaxTicks
    /\ now' = now + MaxAge
    /\ ticks' = ticks + 1
    /\ sent' = NoSent
    /\ UNCHANGED <<maxEventsPerSession, batchSize, proc, timers, clients, order,
                   readyState, receiverEnded, pending, sessions, sessionOrder,
                   sessionBatchQueue, flights, pool, cleanups, app,
                   tblSessions, tblEvents, tblErrors, dbClock,
                   nextGen, nextEv, queued, hist>>

\* the setInterval callback of startHeartbeatCheck
HeartbeatTimerFires ==
    /\ Turn
    /\ timers.heartbeat
    /\ LET stale == {StaleClients(Cur)[k] : k \in 1..Len(StaleClients(Cur))}
       IN Step(CheckClientHeartbeats(Cur),
               [hist EXCEPT !.terminated = @ \cup stale,
                            !.beatEnded = @ \cup
                               {sid \in AllIds :
                                   /\ sessions[sid].isActive
                                   /\ \E c \in stale :
                                         /\ clients[c].type = "tracker"
                                         /\ clients[c].sessionId = sid}])
    /\ UNCHANGED <<now, ticks, nextEv>>

\* SessionService.updateSessionHeartbeat(sid), called on the service (no
\* frame, route or timer of the server calls it)
HeartbeatCall(sid) ==
    /\ Turn
    /\ Step(UpdateSessionHeartbeat(Cur, sid), hist)
    /\ UNCHANGED <<now, ticks, nextEv>>

\* the setInterval callback of startPeriodicCleanup
CleanupTimerFires ==
    /\ Turn
    /\ timers.cleanup
    /\ Step(CleanupOldSessions(Cur), hist)
    /\ UNCHANGED <<now, ticks, nextEv>>

\* the setInterval callback of startBatchProcessor
BatchTimerFires ==
    /\ Turn
    /\ timers.batch
    /\ Len(sessionBatchQueue) > 0
    /\ Step(ProcessBatch(Cur, "timer"), hist)
    /\ UNCHANGED <<now, ticks, nextEv>>

CreatedAts(entries) == {entries[k].createdAt : k \in 1..Len(entries)}

\* processBatch i resumes: pool.connect() and BEGIN succeeded
FlightConnected(i) ==
    /\ Turn
    /\ ~flights[i].late
    /\ flights[i].stage = "connect"
    /\ Step(Connected(Cur, i), hist)
    /\ UNCHANGED <<now, ticks, nextEv>>

\* processBatch i resumes: its writes and COMMIT succeeded
FlightCommitted(i) ==
    /\ Turn
    /\ flights[i].stage = "tx"
    /\ Step(AfterResolve(Committed(Cur, i), flights[i].caller),
            [hist EXCEPT !.committed = @ \cup CreatedAts(flights[i].entries)])
    /\ UNCHANGED <<now, ticks, nextEv>>

\* processBatch i resumes: a query threw, ROLLBACK succeeded
FlightRolledBack(i) ==
    /\ Turn
    /\ flights[i].stage = "tx"
    /\ Step(AfterResolve(RolledBack(Cur, i), flights[i].caller),
            [hist EXCEPT !.storeFailed = @ \/ proc = "stopping",
                         !.requeued = TRUE])
    /\ UNCHANGED <<now, ticks, nextEv>>

\* processBatch i resumes and throws: pool.connect() rejected, or a query
\* and then ROLLBACK threw
FlightThrew(i) ==
    /\ Turn
    /\ Step(AfterReject(Threw(Cur, i), flights[i].caller),
            [hist EXCEPT !.lost = @ \cup CreatedAts(flights[i].entries),
                         !.storeFailed = @ \/ proc = "stopping"])
    /\ UNCHANGED <<now, ticks, nextEv>>

\* pool.end() resolves: every client that was asked for before it was
\* called has been handed out and released
PoolEndResolves ==
    /\ Turn
    /\ proc = "stopping"
    /\ pool = "ended"
    /\ app = "open"
    /\ \A i \in 1..Len(flights) : flights[i].late
    /\ \A i \in 1..Len(cleanups) : cleanups[i].late
    /\ Step(PoolEnded(Cur), hist)
    /\ UNCHANGED <<now, ticks, nextEv>>

\* app.close() resolves: FastifyServer.shutdown returns and index.ts calls
\* process.exit(0)
AppCloseResolves ==
    /\ Turn
    /\ app = "closing"
    /\ Step(AppClosed(Cur), hist)
    /\ UNCHANGED <<now, ticks, nextEv>>

\* SIGINT, SIGTERM or an uncaught exception: index.ts calls shutdown, which
\* calls FastifyServer.shutdown, each time
Signal ==
    /\ Turn
    /\ Step(ServerShutdown(Cur), hist)
    /\ UNCHANGED <<now, ticks, nextEv>>

\* DatabaseService.cleanupOldSessions i resumes: pool.connect() resolved and
\* the DELETE ran, at the time of the Store
CleanupResolves(i) ==
    /\ Turn
    /\ ~cleanups[i].late
    /\ Step(CleanupDone(Cur, i), hist)
    /\ UNCHANGED <<now, ticks, nextEv>>

\* DatabaseService.cleanupOldSessions i rejects: pool.connect() or the
\* DELETE failed
CleanupRejects(i) ==
    /\ Turn
    /\ Step(CleanupFailed(Cur, i), hist)
    /\ UNCHANGED <<now, ticks, nextEv>>

\* maxAgeHours values of DELETE /sessions/cleanup requests (24 is the
\* default)
CleanupHours == {0, 24}

\* DELETE /sessions/cleanup?maxAgeHours=hours
RouteCleanup(hours) ==
    /\ Turn
    /\ app = "open"
    /\ Step(StartCleanup(Cur, hours * HourMs, "route"), hist)
    /\ UNCHANGED <<now, ticks, nextEv>>


(***************************************************************************)
(* Specifications.  Each one runs the whole handlers above in its own      *)
(* environment.                                                            *)
(***************************************************************************)
\* ---- Spec: the hub and the registry with one tracker and one viewer.
\* BATCH_SIZE has its default, so the few batches of a run never reach the
\* backpressure mark, and the clock and the Store stand still.
Init ==
    /\ InitServer
    /\ maxEventsPerSession \in 1..MaxCfgEvents
    /\ batchSize = DefaultBatchSize

\* the session ids a client can name: its own, and any the server has made
StartIds == ClientIds \cup {GenId(n) : n \in 1..nextGen}

HubConns == {"t1", "v1"}

Next ==
    \/ \E c \in HubConns : Connect(c)
    \/ \E sid \in StartIds \cup {NoId} :
          Frame("t1", [type |-> "session_start", sessionId |-> sid])
    \/ \E n \in 1..MaxBatchLen : EventsBatchFrame("t1", n)
    \/ \E c \in HubConns, sid \in StartIds :
          Frame(c, [type |-> "session_end", sessionId |-> sid])
    \/ \E sid \in StartIds :
          Frame("v1", [type |-> "viewer_join_session", sessionId |-> sid])
    \/ \E sid \in StartIds :
          Frame("v1", [type |-> "viewer_leave_session", sessionId |-> sid])
    \/ \E c \in HubConns : CloseEvent(c)
    \/ Microtasks

Spec == Init /\ [][Next]_vars

\* ---- SpecPair: two trackers that name the same session ids, and a viewer
\* that looks on.  As in Spec, the clock and the Store stand still.
InitPair ==
    /\ InitServer
    /\ maxEventsPerSession = DefaultMaxEvents
    /\ batchSize = DefaultBatchSize

NextPair ==
    \/ \E c \in Conns : Connect(c)
    \/ \E c \in Trackers, sid \in StartIds \cup {NoId} :
          Frame(c, [type |-> "session_start", sessionId |-> sid])
    \/ \E c \in Trackers : EventsBatchFrame(c, 1)
    \/ \E c \in Trackers, sid \in StartIds :
          Frame(c, [type |-> "session_end", sessionId |-> sid])
    \/ \E c \in Trackers : CloseEvent(c)

SpecPair == InitPair /\ [][NextPair]_vars

(***************************************************************************)
(* Claims on the hub and the registry.                                     *)
(***************************************************************************)
Frames(c, type) == SelectSeq(sent[c], LAMBDA m : m.type = type)

Registered(c) == clients[c] # NoClient

\* C2: in every reachable state the event buffer of every session holds at
\* most MAX_EVENTS_PER_SESSION events, for every setting >= 1 of it.
C2_BufferBounded ==
    \A sid \in AllIds :
        sessions[sid] # NoSession =>
            Len(sessions[sid].events) <= maxEventsPerSession

\* C3: once a session has ended and has not been started again, no
\* events_batch frame for it is broadcast, whatever its tracker still sends.
C3_NoBroadcastAfterEnd ==
    \A c \in Conns : \A k \in 1..Len(sent[c]) :
        sent[c][k].type = "events_batch" =>
            sessions[sent[c][k].sessionId].isActive

\* C4: when tracker b sends session_start with the id of the active session
\* that another connected tracker a started, a keeps the id and the session,
\* and b is told a different id with session_assigned and sends under it
\* from then on.
C4_ConflictReassigns ==
    [][\A a \in Trackers, b \in Trackers, sid \in AllIds \ {NoId} :
          ( /\ a # b
            /\ Registered(a) /\ clients[a].sessionId = sid
            /\ hist.owner[sid] = a
            /\ sessions[sid].isActive
            /\ Registered(b)
            /\ Frame(b, [type |-> "session_start", sessionId |-> sid]) )
          => ( /\ clients'[b].sessionId \notin {sid, NoId}
               /\ clients'[a].sessionId = sid
               /\ sessions'[sid] = sessions[sid]
               /\ Frames(b, "session_assigned")' =
                     <<[type |-> "session_assigned",
                        sessionId |-> clients'[b].sessionId]>> )]_vars

(***************************************************************************)
(* SpecTime: one tracker and one viewer with the clock running in          *)
(* heartbeat periods: sockets fail, go silent or answer pings, and the     *)
(* heartbeat timer fires.  BATCH_SIZE has its default and the Store stands *)
(* still.                                                                  *)
(***************************************************************************)
InitTime ==
    /\ InitServer
    /\ maxEventsPerSession = DefaultMaxEvents
    /\ batchSize = DefaultBatchSize

TimeConns == {"t1", "v1"}

NextTime ==
    \/ \E c \in TimeConns : Connect(c)
    \/ \E sid \in ClientIds :
          Frame("t1", [type |-> "session_start", sessionId |-> sid])
    \/ \E c \in TimeConns : CloseEvent(c)
    \/ \E c \in TimeConns : CloseFrame(c)
    \/ \E c \in TimeConns : ErrorEvent(c)
    \/ \E c \in TimeConns : PongEvent(c)
    \/ Tick
    \/ HeartbeatTimerFires

SpecTime == InitTime /\ [][NextTime]_vars

(***************************************************************************)
(* SpecDeliver: a tracker that starts sessions, feeds them with batches of *)
(* one or more events, ends them and loses its connection; a second        *)
(* tracker that sends session_end for the id of the first; and a viewer    *)
(* that joins, sends its close frame and goes.                             *)
(***************************************************************************)
NextDeliver ==
    \/ \E c \in Conns : Connect(c)
    \/ \E sid \in ClientIds :
          Frame("t1", [type |-> "session_start", sessionId |-> sid])
    \/ \E n \in 1..MaxBatchLen : EventsBatchFrame("t1", n)
    \/ \E c \in Trackers, sid \in ClientIds :
          Frame(c, [type |-> "session_end", sessionId |-> sid])
    \/ \E sid \in ClientIds :
          Frame("v1", [type |-> "viewer_join_session", sessionId |-> sid])
    \/ \E c \in {"t1", "v1"} : CloseEvent(c)
    \/ CloseFrame("v1")
    \/ Microtasks

SpecDeliver == InitTime /\ [][NextDeliver]_vars

(***************************************************************************)
(* SpecSweep: one tracker starts, feeds and ends sessions or loses its     *)
(* connection while the clock runs in days; updateSessionHeartbeat is      *)
(* called on the registry and the cleanup timer fires.                     *)
(***************************************************************************)
NextSweep ==
    \/ Connect("t1")
    \/ \E sid \in ClientIds :
          Frame("t1", [type |-> "session_start", sessionId |-> sid])
    \/ EventsBatchFrame("t1", 1)
    \/ \E sid \in ClientIds :
          Frame("t1", [type |-> "session_end", sessionId |-> sid])
    \/ CloseEvent("t1")
    \/ TickDay
    \/ \E sid \in ClientIds : HeartbeatCall(sid)
    \/ CleanupTimerFires
    \/ \E i \in 1..Len(cleanups) : CleanupResolves(i)

SpecSweep == InitTime /\ [][NextSweep]_vars

(***************************************************************************)
(* SpecCleanup: one tracker starts and ends sessions that are flushed to    *)
(* the Store while the clock runs in days; the cleanup timer fires and     *)
(* DELETE /sessions/cleanup is requested, and each cleanupOldSessions of   *)
(* the Store resolves or rejects in a later turn.                          *)
(***************************************************************************)
NextCleanup ==
    \/ Connect("t1")
    \/ \E sid \in ClientIds :
          /\ Registered("t1")
          /\ clients["t1"].sessionId = NoId
          /\ Frame("t1", [type |-> "session_start", sessionId |-> sid])
    \/ \E sid \in ClientIds :
          Frame("t1", [type |-> "session_end", sessionId |-> sid])
    \/ BatchTimerFires
    \/ \E i \in 1..Len(flights) : FlightConnected(i)
    \/ \E i \in 1..Len(flights) : FlightCommitted(i)
    \/ TickDay
    \/ CleanupTimerFires
    \/ \E sid \in ClientIds : HeartbeatCall(sid)
    \/ \E hours \in CleanupHours : RouteCleanup(hours)
    \/ \E i \in 1..Len(cleanups) : CleanupResolves(i)
    \/ \E i \in 1..Len(cleanups) : CleanupRejects(i)

SpecCleanup == InitTime /\ [][NextCleanup]_vars

(***************************************************************************)
(* Claims on connection loss and on the age of sessions.                   *)
(***************************************************************************)
OwnsSession(c, sid) ==
    /\ Registered(c)
    /\ clients[c].type = "tracker"
    /\ clients[c].sessionId = sid
    /\ sessions[sid] # NoSession

Stale(c) == Registered(c) /\ now - clients[c].lastHeartbeat > HeartbeatTimeout

EndedFrames(c, sid) ==
    SelectSeq(sent[c], LAMBDA m : m.type = "session_ended" /\ m.sessionId = sid)

\* C9: when the socket of the tracker that started a session closes, by
\* whatever path (a plain close, a heartbeat timeout, a transport error and
\* then the close), the session is inactive afterwards, and if it was still
\* active before the close, session_ended goes out to the viewers.
C9_LossEndsSession ==
    [][\A c \in Trackers, sid \in AllIds \ {NoId} :
          ( /\ CloseEvent(c)
            /\ hist.owner[sid] = c
            /\ sessions[sid] # NoSession )
          => ( /\ ~sessions'[sid].isActive
               /\ sessions[sid].isActive =>
                     \A v \in Viewers :
                        (Registered(v) /\ readyState[v] = "OPEN") =>
                           Len(EndedFrames(v, sid)') = 1 )]_vars

\* C10: a heartbeat check removes every client that has been silent for
\* more than 60 s; for each session owned by such a tracker it calls
\* endSession once (one batch queued, the session inactive, one
\* session_ended frame to every viewer that stays connected); and the close
\* event that follows for a terminated socket changes nothing and sends
\* nothing.
C10_TimeoutOnce ==
    [][ /\ HeartbeatTimerFires =>
             /\ \A c \in Conns : Stale(c) => ~Registered(c)'
             /\ \A c \in Conns : (Registered(c) /\ ~Stale(c)) => Registered(c)'
             /\ queued' = queued +
                   Cardinality({c \in Conns : \E sid \in AllIds :
                                   Stale(c) /\ OwnsSession(c, sid)})
             /\ \A sid \in AllIds \ {NoId} :
                   LET enders == {c \in Conns : Stale(c) /\ OwnsSession(c, sid)}
                   IN /\ enders # {} => ~sessions'[sid].isActive
                      /\ enders = {} => sessions'[sid] = sessions[sid]
                      /\ \A v \in Viewers :
                            (Registered(v) /\ ~Stale(v) /\ readyState[v] = "OPEN") =>
                               Len(EndedFrames(v, sid)') = Cardinality(enders)
        /\ \A c \in Conns :
             (CloseEvent(c) /\ c \in hist.terminated) =>
                /\ clients' = clients
                /\ sessions' = sessions
                /\ queued' = queued
                /\ sent' = NoSent ]_vars

\* C10 witness: a tracker that owned an active session was terminated by
\* the heartbeat check and its close event has been handled since.
C10_Witness ==
    /\ "t1" \in hist.reentered
    /\ hist.owner[1] = "t1"
    /\ 1 \in hist.beatEnded
    /\ ~sessions[1].isActive

\* C1: on the connection on which a tracker sent session_start, and until
\* a session_end frame for the id is handled, every events_batch frame of
\* the tracker reaches every connected viewer whose watched set holds the
\* id: one events_batch frame, with exactly the events of the tracker's
\* frame in their order.  Frames are handled one at a time in the order of
\* arrival, so the viewer sees b1..bn in order, none twice, none missing,
\* none out of place.
C1_EveryBatchDelivered ==
    [][\A c \in Trackers, n \in 1..MaxBatchLen, sid \in AllIds, v \in Viewers :
          ( /\ Registered(c) /\ clients[c].type = "tracker"
            /\ clients[c].sessionId = sid
            /\ hist.owner[sid] = c
            /\ sid \in hist.running
            /\ Registered(v) /\ readyState[v] = "OPEN"
            /\ sid \in clients[v].watchingSessions
            /\ EventsBatchFrame(c, n) )
          => Frames(v, "events_batch")' =
                <<[type |-> "events_batch", sessionId |-> sid,
                   events |-> Range(nextEv + 1, nextEv + n)]>>]_vars

\* C1 witness: in the run of session 1, after a first batch of one event, a
\* batch of two events has just reached the viewer watching the session,
\* its events in the tracker's order.
C1_Witness ==
    /\ 1 \in hist.running
    /\ hist.owner[1] = "t1"
    /\ Registered("v1") /\ 1 \in clients["v1"].watchingSessions
    /\ sent["v1"] = <<[type |-> "events_batch", sessionId |-> 1,
                       events |-> <<2, 3>>]>>

(***************************************************************************)
(* SpecDb: one tracker feeds the queue of DatabaseService while the batch  *)
(* timer fires, flushes proceed, fail and overlap, and the process is      *)
(* told to stop.  BATCH_SIZE is small, so that the backpressure mark and   *)
(* the size of a flush are within reach.                                   *)
(***************************************************************************)
InitDb ==
    /\ InitServer
    /\ maxEventsPerSession = DefaultMaxEvents
    /\ batchSize \in 1..MaxCfgBatch

NextDb ==
    \/ Connect("t1")
    \/ \E sid \in ClientIds :
          Frame("t1", [type |-> "session_start", sessionId |-> sid])
    \/ EventsBatchFrame("t1", 1)
    \/ CloseEvent("t1")
    \/ BatchTimerFires
    \/ \E i \in 1..Len(flights) : FlightConnected(i)
    \/ \E i \in 1..Len(flights) : FlightCommitted(i)
    \/ \E i \in 1..Len(flights) : FlightRolledBack(i)
    \/ \E i \in 1..Len(flights) : FlightThrew(i)
    \/ Signal
    \/ PoolEndResolves
    \/ AppCloseResolves

SpecDb == InitDb /\ [][NextDb]_vars

(***************************************************************************)
(* DatabaseService.getSessionEvents.  ORDER BY created_at leaves the order *)
(* of rows with equal created_at to the server, so a read has a set of     *)
(* possible results.                                                       *)
(***************************************************************************)
RECURSIVE Concat(_)
Concat(seqs) ==
    IF seqs = <<>> THEN <<>> ELSE Head(seqs) \o Concat(Tail(seqs))

\* the orders in which SELECT ... WHERE session_id = sid ORDER BY
\* created_at ASC can return the rows of table session_events
RowOrders(rows, sid) ==
    LET idx == {k \in 1..Len(rows) : rows[k].session_id = sid}
        n == Cardinality(idx)
    IN {f \in [1..n -> idx] :
          /\ \A i, j \in 1..n : i # j => f[i] # f[j]
          /\ \A i, j \in 1..n :
                i < j => rows[f[i]].created_at <= rows[f[j]].created_at}

\* the results DatabaseService.getSessionEvents(sid, fromIndex, limit) can
\* return
StoreGetSessionEvents(rows, sid, fromIndex, limit) ==
    {Slice(Concat([k \in 1..Len(f) |-> rows[f[k]].events]),
           fromIndex, fromIndex + limit) : f \in RowOrders(rows, sid)}

(***************************************************************************)
(* Claims on the queue of DatabaseService and on the Store.                *)
(***************************************************************************)
Drained ==
    /\ sessionBatchQueue = <<>>
    /\ flights = <<>>
    /\ hist.lost = {}

\* C5: once the queue is drained, with nothing lost on the way, reading a
\* session's events back from the Store, from index 0 with a limit of their
\* number, returns the events that were queued for it, in that order.
C5_RoundTrip ==
    \A sid \in AllIds :
        Drained =>
            \A got \in StoreGetSessionEvents(tblEvents, sid, 0,
                                             Len(hist.submitted[sid])) :
                got = hist.submitted[sid]

\* C6: the event rows of a session become durable in the order in which
\* their batches were queued: in table session_events, in commit order, the
\* rows of one session carry ascending events.
C6_CommitInEnqueueOrder ==
    \A i, j \in 1..Len(tblEvents) :
        (i < j /\ tblEvents[i].session_id = tblEvents[j].session_id) =>
            tblEvents[i].events[1] < tblEvents[j].events[1]

\* C7: a processBatch that fails after it has taken its entries from the
\* queue writes nothing, and its entries are back at the head of the queue
\* in their order; whichever step failed, none of them is lost.
C7_FailedFlushRequeues ==
    [][\A i \in 1..MaxInFlight :
          /\ (i <= Len(flights) /\ FlightRolledBack(i)) =>
                /\ <<tblSessions, tblEvents, tblErrors>>' =
                      <<tblSessions, tblEvents, tblErrors>>
                /\ SubSeq(sessionBatchQueue', 1, Len(flights[i].entries)) =
                      flights[i].entries
          /\ (i <= Len(flights) /\ FlightThrew(i)) =>
                /\ <<tblSessions, tblEvents, tblErrors>>' =
                      <<tblSessions, tblEvents, tblErrors>>
                /\ CreatedAts(flights[i].entries) \subseteq
                      CreatedAts(sessionBatchQueue') \cup
                      UNION {CreatedAts(flights'[k].entries) :
                                k \in 1..Len(flights')} ]_vars

\* C8: when shutdown has run to process.exit(0) and no Store operation
\* failed on the way, the queue is empty and every batch that was queued
\* before DatabaseService.shutdown was called is committed (those that a
\* failed processBatch had dropped before then aside).
C8_ShutdownDrains ==
    (proc = "exit0" /\ ~hist.storeFailed) =>
        /\ sessionBatchQueue = <<>>
        /\ (1..hist.atShutdown) \ hist.lost \subseteq hist.committed

(***************************************************************************)
(* Claims on the trim, misrouted frames, joins and the broadcast filter.   *)
(***************************************************************************)
\* the last k elements of a sequence (all of it when it is shorter)
LastK(seq, k) == SubSeq(seq, Max(1, Len(seq) - k + 1), Len(seq))

\* C11: whenever an events_batch makes the buffer of its session longer than
\* MAX_EVENTS_PER_SESSION, the buffer right after the append holds exactly
\* the floor(MAX / 2) most recently arrived events, in arrival order, for
\* every MAX >= 1 and every split of the events into batches.
C11_TrimKeepsRecentHalf ==
    [][\A c \in Trackers, n \in 1..MaxBatchLen, sid \in AllIds :
          ( /\ EventsBatchFrame(c, n)
            /\ OwnsSession(c, sid)
            /\ sessions[sid] # NoSession
            /\ Len(sessions[sid].events) + n > maxEventsPerSession )
          => sessions'[sid].events =
                LastK(sessions[sid].events \o Range(nextEv + 1, nextEv + n),
                      maxEventsPerSession \div 2)]_vars

(***************************************************************************)
(* A tracker and a viewer that send every frame type, including the ones   *)
(* of the other role, page requests and client errors.                     *)
(***************************************************************************)
RoleConns == {"t1", "v1"}

\* session ids named by frames: the tracker's id and one no session has
JoinIds == ClientIds \cup {GenId(1)}

InitRoles ==
    /\ InitServer
    /\ maxEventsPerSession = DefaultMaxEvents
    /\ batchSize = DefaultBatchSize

NextRoles ==
    \/ \E c \in RoleConns : Connect(c)
    \/ \E c \in RoleConns, sid \in ClientIds :
          Frame(c, [type |-> "session_start", sessionId |-> sid])
    \/ EventsBatchFrame("t1", 1)
    \/ Frame("v1", [type |-> "events_batch", events |-> <<0>>])
    \/ \E c \in RoleConns, sid \in ClientIds :
          Frame(c, [type |-> "session_end", sessionId |-> sid])
    \/ \E c \in RoleConns, sid \in JoinIds :
          Frame(c, [type |-> "viewer_join_session", sessionId |-> sid])
    \/ \E sid \in JoinIds :
          Frame("v1", [type |-> "viewer_leave_session", sessionId |-> sid])
    \/ Frame("v1", [type |-> "error", data |-> "err"])
    \/ \E c \in RoleConns : CloseEvent(c)
    \/ CloseFrame("v1")
    \/ Microtasks

SpecRoles == InitRoles /\ [][NextRoles]_vars

\* the frames of the tracker role, as a viewer may send them
TrackerFrames ==
    {[type |-> "session_start", sessionId |-> sid] : sid \in ClientIds}
    \cup {[type |-> "events_batch", events |-> <<0>>]}
    \cup {[type |-> "session_end", sessionId |-> sid] : sid \in ClientIds}
    \cup {[type |-> "error", data |-> "err"]}

\* C12: a frame whose type belongs to the other role changes no state and
\* is answered with an error message: a viewer's session_start,
\* events_batch, session_end or error leaves every session of the registry
\* as it was, and a tracker's viewer_join_session leaves its watched set
\* empty.
C12_MisroutedFrameRejected ==
    [][/\ \A msg \in TrackerFrames :
             (Frame("v1", msg) /\ Registered("v1"))
             => /\ sessions' = sessions
                /\ \E k \in 1..Len(sent'["v1"]) : sent'["v1"][k].type = "error"
       /\ \A sid \in JoinIds :
             ( /\ Frame("t1", [type |-> "viewer_join_session", sessionId |-> sid])
               /\ Registered("t1") )
             => /\ clients'["t1"].watchingSessions = {}
                /\ \E k \in 1..Len(sent'["t1"]) : sent'["t1"][k].type = "error"
      ]_vars

\* C13: a viewer_join_session naming a session id the registry does not
\* know is answered with an error message and leaves the watched set of the
\* viewer as it was: the id is not added and no session_joined is sent.
C13_UnknownJoinRejected ==
    [][\A sid \in JoinIds :
          ( /\ Frame("v1", [type |-> "viewer_join_session", sessionId |-> sid])
            /\ Registered("v1")
            /\ sessions[sid] = NoSession )
          => /\ clients'["v1"].watchingSessions = clients["v1"].watchingSessions
             /\ \E k \in 1..Len(sent'["v1"]) : sent'["v1"][k].type = "error"
             /\ \A k \in 1..Len(sent'["v1"]) :
                   sent'["v1"][k].type # "session_joined"]_vars

\* an events_batch frame for session sid is among the frames just written
\* to socket c
GotBatch(c, sid) ==
    \E k \in 1..Len(sent[c]) :
        sent[c][k].type = "events_batch" /\ sent[c][k].sessionId = sid

\* C14: an events_batch broadcast for session s reaches exactly the
\* connected viewers whose watched set holds s at that moment: never a
\* tracker, never a viewer that has not joined s, never a viewer after its
\* viewer_leave_session for s or after its disconnect.
C14_BroadcastToWatchersOnly ==
    /\ [](\A c \in Conns, sid \in AllIds :
             GotBatch(c, sid) => /\ Registered(c)
                                 /\ clients[c].type = "viewer"
                                 /\ sid \in clients[c].watchingSessions)
    /\ [][\A n \in 1..MaxBatchLen, sid \in AllIds :
             (OwnsSession("t1", sid) /\ EventsBatchFrame("t1", n))
             => \A c \in Conns :
                   GotBatch(c, sid)' <=> /\ Registered(c)
                                         /\ clients[c].type = "viewer"
                                         /\ readyState[c] = "OPEN"
                                         /\ sid \in clients[c].watchingSessions
       ]_vars

\* a batch has just reached the viewer watching the session while the
\* tracker, which had sent viewer_join_session for it too, got none
C14_Witness ==
    \E sid \in AllIds :
        /\ GotBatch("v1", sid)
        /\ Registered("t1")
        /\ sid \in clients["t1"].watchingSessions
        /\ sent["t1"] = <<>>

(***************************************************************************)
(* A viewer pages through the buffer of a session with get_session_events. *)
(***************************************************************************)
PageConns == {"t1", "v1"}

\* fromIndex values of get_session_events frames
FromIndexes == (0 - 1)..MaxEvents

NextPages ==
    \/ \E c \in PageConns : Connect(c)
    \/ \E sid \in ClientIds :
          Frame("t1", [type |-> "session_start", sessionId |-> sid])
    \/ \E n \in 1..MaxBatchLen : EventsBatchFrame("t1", n)
    \/ \E c \in PageConns, sid \in JoinIds, fromIndex \in FromIndexes :
          Frame(c, [type |-> "get_session_events", sessionId |-> sid,
                    fromIndex |-> fromIndex])
    \/ \E c \in PageConns : CloseEvent(c)
    \/ \E c \in PageConns : CloseFrame(c)
    \/ \E c \in PageConns : ErrorEvent(c)
    \/ Microtasks

SpecPages == Init /\ [][NextPages]_vars

\* the number of events the registry holds for a session
TotalEvents(sid) ==
    IF sessions[sid] = NoSession THEN 0 ELSE Len(sessions[sid].events)

\* C15: every session_events reply whose fromIndex is at or past its
\* totalEvents carries no events and hasMore = false, and in every reply
\* hasMore is true exactly when fromIndex + the number of events returned
\* is below totalEvents.
C15_PageReply ==
    \A c \in Conns : \A k \in 1..Len(sent[c]) :
        sent[c][k].type = "session_events"
        => LET reply == sent[c][k]
           IN /\ reply.fromIndex >= reply.totalEvents
                    => reply.events = <<>> /\ ~reply.hasMore
              /\ reply.hasMore <=>
                    reply.fromIndex + Len(reply.events) < reply.totalEvents

(***************************************************************************)
(* GET /sessions/:sessionId/events.  The route hands the values of the     *)
(* query string to DatabaseService.getSessionEvents as they are, as text.  *)
(***************************************************************************)
\* the number of decimal digits of a natural number
RECURSIVE Digits(_)
Digits(n) == IF n < 10 THEN 1 ELSE 1 + Digits(n \div 10)

RECURSIVE Pow10(_)
Pow10(k) == IF k = 0 THEN 1 ELSE 10 * Pow10(k - 1)

\* fromIndex + limit of getSessionEvents when both are query strings: the
\* texts are joined ("1" + "1" is "11"), and slice() reads the result as a
\* number
TextSum(fromIndex, limit) == fromIndex * Pow10(Digits(limit)) + limit

\* the event stream of a session in the Store under one order of its rows
Stream(rows, f) == Concat([k \in 1..Len(f) |-> rows[f[k]].events])

\* the events the route can return for ?fromIndex=..&limit=..
RouteGetSessionEvents(rows, sid, fromIndex, limit) ==
    {Slice(Stream(rows, f), fromIndex, TextSum(fromIndex, limit))
        : f \in RowOrders(rows, sid)}

\* C16: a read of the Store's events of a session returns exactly the slice
\* [fromIndex, fromIndex + limit) of the concatenation of its batch rows in
\* created_at order; two consecutive pages join without gap or overlap; an
\* unknown session or an offset past the end gives an empty result.
C16_PagedRead ==
    \A sid \in AllIds, fromIndex \in 0..MaxEvents, limit \in 1..MaxEvents :
        /\ \A got \in RouteGetSessionEvents(tblEvents, sid, fromIndex, limit) :
              \E f \in RowOrders(tblEvents, sid) :
                 got = Slice(Stream(tblEvents, f), fromIndex, fromIndex + limit)
        /\ \A first \in RouteGetSessionEvents(tblEvents, sid, fromIndex, limit),
              second \in RouteGetSessionEvents(tblEvents, sid,
                                               fromIndex + limit, limit) :
              \E f \in RowOrders(tblEvents, sid) :
                 first \o second = Slice(Stream(tblEvents, f), fromIndex,
                                         fromIndex + limit + limit)

(***************************************************************************)
(* Claims on the periodic cleanup of the registry.                         *)
(***************************************************************************)
\* the session is inactive and its last activity is more than 24 hours ago
Aged(sid) ==
    /\ sessions[sid] # NoSession
    /\ ~sessions[sid].isActive
    /\ now - sessions[sid].lastActivity > MaxAge

\* C17: a run of the periodic cleanup removes from the registry exactly the
\* sessions that are inactive and whose last activity is strictly more than
\* 24 hours ago: an active session stays whatever its age, and an inactive
\* one stays at an age of exactly 24 hours or less.
C17_CleanupEvictsAgedInactive ==
    [][CleanupTimerFires =>
          \A sid \in AllIds :
             sessions'[sid] = IF Aged(sid) THEN NoSession ELSE sessions[sid]
      ]_vars

\* a session that a tracker had started is gone from the registry: it had
\* ended and a cleanup run evicted it past the age limit
C17_Witness ==
    \E sid \in AllIds :
        /\ sessions[sid] = NoSession
        /\ hist.owner[sid] # "none"
        /\ now > MaxAge

(***************************************************************************)
(* Claims on the sessions table and on what the Store records of a         *)
(* session.                                                                *)
(***************************************************************************)
\* starts and ends of one session, flushed and retried
NextUpsert ==
    \/ Connect("t1")
    \/ \E sid \in ClientIds :
          Frame("t1", [type |-> "session_start", sessionId |-> sid])
    \/ \E sid \in ClientIds :
          Frame("t1", [type |-> "session_end", sessionId |-> sid])
    \/ BatchTimerFires
    \/ \E i \in 1..Len(flights) : FlightConnected(i)
    \/ \E i \in 1..Len(flights) : FlightCommitted(i)
    \/ \E i \in 1..Len(flights) : FlightRolledBack(i)

SpecUpsert == InitDb /\ [][NextUpsert]_vars

\* the batches of one session among the entries of a processBatch run
BatchesOf(entries, sid) == SelectSeq(entries, LAMBDA b : b.sessionId = sid)

\* C18: after any sequence of flushes, repeated session_start frames of the
\* owning client included, table sessions holds one row per session_id at
\* most, and the row carries the is_active of the batch applied last for
\* that id: a commit leaves in the row of every id it wrote the values of
\* its last batch for the id, and leaves every other row alone.
C18_UpsertKeepsLatest ==
    [][\A i \in 1..Len(flights) :
          FlightCommitted(i) =>
             \A sid \in AllIds :
                LET mine == BatchesOf(flights[i].entries, sid)
                IN tblSessions'[sid] =
                      IF mine = <<>> THEN tblSessions[sid]
                      ELSE [is_active |-> mine[Len(mine)].isActive,
                            updated_at |-> flights[i].begunAt]
      ]_vars

\* the row of a session that was started and has ended: two batches at
\* least were committed and the row is the one of the later
C18_Witness ==
    \E sid \in AllIds :
        /\ tblSessions[sid] # NoRow
        /\ ~tblSessions[sid].is_active
        /\ Cardinality(hist.committed) >= 2

(***************************************************************************)
(* A tracker reports client errors while a viewer watches its session.     *)
(***************************************************************************)
\* the frame types that report a client error
ErrorTypes == {"error", "javascript_error", "promise_rejection"}

NextErrors ==
    \/ \E c \in RoleConns : Connect(c)
    \/ \E sid \in ClientIds :
          Frame("t1", [type |-> "session_start", sessionId |-> sid])
    \/ \E sid \in ClientIds :
          Frame("v1", [type |-> "viewer_join_session", sessionId |-> sid])
    \/ \E t \in ErrorTypes : Frame("t1", [type |-> t, data |-> "err"])
    \/ \E c \in RoleConns : CloseEvent(c)
    \/ Microtasks

SpecErrors == InitRoles /\ [][NextErrors]_vars

\* C19: every error, javascript_error and promise_rejection frame of a
\* tracker that owns a session is recorded: the error is appended to the
\* errors of the session in the registry and an errors batch for the
\* session is queued for the Store.
C19_ErrorFramesRecorded ==
    [][\A t \in ErrorTypes, sid \in AllIds :
          ( /\ Frame("t1", [type |-> t, data |-> "err"])
            /\ OwnsSession("t1", sid) )
          => /\ sessions'[sid].errors = Append(sessions[sid].errors, "err")
             /\ Len(sessionBatchQueue') = Len(sessionBatchQueue) + 1
             /\ LET batch == sessionBatchQueue'[Len(sessionBatchQueue')]
                IN batch.sessionId = sid /\ batch.errors = <<"err">>
      ]_vars

\* DatabaseService.getActiveSessions: the ids of the rows with is_active
StoreGetActiveSessions(rows) ==
    {sid \in AllIds : rows[sid] # NoRow /\ rows[sid].is_active}

\* DatabaseService.getAllSessions, within its first page
StoreGetAllSessions(rows) ==
    {[sessionId |-> sid, isActive |-> rows[sid].is_active]
        : sid \in {x \in AllIds : rows[x] # NoRow}}

\* C20: after the tracker owning session s has disconnected without a
\* session_end, once the queue has drained (failed flushes re-queued and
\* retried, nothing lost) and no further frame for s has come, the Store
\* records s as not active: getActiveSessions omits it and getAllSessions
\* lists it with isActive = false.
C20_DisconnectReachesStore ==
    \A sid \in AllIds :
        ( /\ sessions[sid] # NoSession
          /\ ~sessions[sid].isActive
          /\ \A c \in Conns : ~OwnsSession(c, sid)
          /\ Drained )
        => /\ sid \notin StoreGetActiveSessions(tblSessions)
           /\ [sessionId |-> sid, isActive |-> FALSE]
                 \in StoreGetAllSessions(tblSessions)

(***************************************************************************)
(* Claims on the flush pipeline: backpressure, overlap of flushes.         *)
(***************************************************************************)
\* C21: an enqueue that leaves the queue at twice BATCH_SIZE or more starts
\* a flush within the same call, which takes BATCH_SIZE entries from the
\* head before the call returns; so, as long as no flush has failed and
\* re-queued its entries, the queue is shorter than twice BATCH_SIZE after
\* every enqueue.
C21_BackpressureBoundsQueue ==
    /\ [](~hist.requeued => Len(sessionBatchQueue) < 2 * batchSize)
    /\ [][( /\ queued' = queued + 1
            /\ Len(sessionBatchQueue) + 1 >= 2 * batchSize )
          => /\ Len(flights') = Len(flights) + 1
             /\ LET flush == flights'[Len(flights')]
                IN /\ flush.caller = "enqueue"
                   /\ Len(flush.entries) = batchSize
                   /\ Len(sessionBatchQueue') =
                         Len(sessionBatchQueue) + 1 - batchSize
                   /\ SubSeq(flush.entries \o sessionBatchQueue',
                             1, Len(sessionBatchQueue)) = sessionBatchQueue
      ]_vars

\* an enqueue has started a flush of a full batch and left BATCH_SIZE
\* entries in the queue, no flush having failed
C21_Witness ==
    /\ ~hist.requeued
    /\ Len(sessionBatchQueue) = batchSize
    /\ \E i \in 1..Len(flights) :
          flights[i].caller = "enqueue" /\ Len(flights[i].entries) = batchSize

\* C22: at most one flush is in progress at any time: while the transaction
\* of one processBatch is open, no other processBatch, started by the timer
\* or by an enqueue, has taken entries from the queue.
C22_SingleFlush ==
    \A i, j \in 1..Len(flights) :
        i # j => flights[i].stage # "tx"

(***************************************************************************)
(* Claims on frames, roles and replies.                                    *)
(***************************************************************************)
\* C23: an append of events to a session that is not active is rejected:
\* the events buffer and lastActivity of the session stay as they were, no
\* events_batch is broadcast and no events batch is queued for the Store.
C23_AppendToInactiveRejected ==
    [][\A n \in 1..MaxBatchLen, sid \in AllIds :
          ( /\ EventsBatchFrame("t1", n)
            /\ OwnsSession("t1", sid)
            /\ ~sessions[sid].isActive )
          => /\ sessions'[sid].events = sessions[sid].events
             /\ sessions'[sid].lastActivity = sessions[sid].lastActivity
             /\ \A c \in Conns : ~GotBatch(c, sid)'
             /\ sessionBatchQueue' = sessionBatchQueue
      ]_vars

(***************************************************************************)
(* Upgrades on /ws with any value of the type query parameter.             *)
(***************************************************************************)
\* values of ?type= on the upgrade URL; "" is a missing or empty value
QueryTypes == {"", "viewer", "tracker", "admin"}

\* setupWebSocket: query.type || "tracker", with no check of the value
QueryClientType(queryType) == IF queryType = "" THEN "tracker" ELSE queryType

\* a socket is accepted on /ws?type=queryType
ConnectAs(c, queryType) ==
    /\ Turn
    /\ app = "open"
    /\ readyState[c] = "NONE"
    /\ Step(HandleConnection([Cur EXCEPT !.readyState[c] = "OPEN"], c,
                             QueryClientType(queryType)),
            [hist EXCEPT !.terminated = @ \ {c}, !.reentered = @ \ {c},
                         !.owner = [sid \in AllIds |->
                                       IF @[sid] = c THEN "none" ELSE @[sid]]])
    /\ UNCHANGED <<now, ticks, nextEv>>

UpgradeConns == {"t1", "v1"}

NextUpgrade ==
    \/ \E c \in UpgradeConns, queryType \in QueryTypes : ConnectAs(c, queryType)
    \/ \E c \in UpgradeConns, sid \in ClientIds :
          Frame(c, [type |-> "session_start", sessionId |-> sid])
    \/ \E c \in UpgradeConns, sid \in ClientIds :
          Frame(c, [type |-> "viewer_join_session", sessionId |-> sid])
    \/ \E c \in UpgradeConns : Frame(c, [type |-> "get_active_sessions"])
    \/ \E c \in UpgradeConns : CloseEvent(c)
    \/ Microtasks

SpecUpgrade == InitRoles /\ [][NextUpgrade]_vars

\* C24: every client registered in the hub has role tracker or viewer:
\* type=viewer gives a viewer, type=tracker or no type gives a tracker, and
\* no value of the type parameter registers a client of another role.
C24_RoleIsTrackerOrViewer ==
    \A c \in Conns :
        Registered(c) => clients[c].type \in {"tracker", "viewer"}

(***************************************************************************)
(* A viewer lists the active sessions while a tracker starts and ends      *)
(* sessions, sends events and reports errors.                              *)
(***************************************************************************)
ListConns == {"t1", "v1"}

NextLists ==
    \/ \E c \in ListConns : Connect(c)
    \/ \E sid \in ClientIds \cup {NoId} :
          Frame("t1", [type |-> "session_start", sessionId |-> sid])
    \/ EventsBatchFrame("t1", 1)
    \/ Frame("t1", [type |-> "error", data |-> "err"])
    \/ \E sid \in StartIds :
          Frame("t1", [type |-> "session_end", sessionId |-> sid])
    \/ Frame("v1", [type |-> "get_active_sessions"])
    \/ \E c \in ListConns : CloseEvent(c)
    \/ \E c \in ListConns : CloseFrame(c)

SpecLists == InitRoles /\ [][NextLists]_vars

\* the active_sessions message for the sessions of the registry as they are
ActiveSessionsNow ==
    [type |-> "active_sessions",
     sessions |-> {[sessionId |-> sid,
                    eventCount |-> Len(sessions[sid].events),
                    errorCount |-> Len(sessions[sid].errors)]
                   : sid \in {x \in AllIds : /\ sessions[x] # NoSession
                                             /\ sessions[x].isActive}}]

\* C25: a viewer is sent active_sessions at once when it connects, before
\* any other message, and on each get_active_sessions request; the message
\* lists exactly the sessions of the registry that are active at that
\* moment, each with its buffer length as eventCount and the length of its
\* errors as errorCount.
C25_ActiveSessionsListed ==
    [][/\ Connect("v1") => sent'["v1"] = <<ActiveSessionsNow>>
       /\ (Frame("v1", [type |-> "get_active_sessions"]) /\ Registered("v1"))
             => sent'["v1"] = <<ActiveSessionsNow>>
      ]_vars

\* the viewer has just been sent a list with a session that holds events,
\* while the registry also holds a session that has ended
C25_Witness ==
    /\ Len(sent["v1"]) = 1
    /\ sent["v1"][1].type = "active_sessions"
    /\ \E s \in sent["v1"][1].sessions : s.eventCount > 0
    /\ \E sid \in AllIds : sessions[sid] # NoSession /\ ~sessions[sid].isActive

\* C26: a viewer_join_session for a session the registry knows adds the id
\* to the watched set of the viewer and is answered, to that viewer only,
\* with session_joined carrying no events, the current buffer length as
\* totalEvents and the current isActive; events appended afterwards reach
\* the viewer as events_batch.
C26_JoinKnownSession ==
    [][/\ \A sid \in JoinIds :
             ( /\ Registered("v1")
               /\ sessions[sid] # NoSession
               /\ Frame("v1", [type |-> "viewer_join_session", sessionId |-> sid]) )
             => /\ clients'["v1"].watchingSessions =
                      clients["v1"].watchingSessions \cup {sid}
                /\ sent' = [NoSent EXCEPT !["v1"] =
                      <<[type |-> "session_joined", sessionId |-> sid,
                         events |-> <<>>,
                         totalEvents |-> Len(sessions[sid].events),
                         isActive |-> sessions[sid].isActive]>>]
       /\ \A n \in 1..MaxBatchLen, sid \in AllIds :
             ( /\ OwnsSession("t1", sid)
               /\ Registered("v1")
               /\ readyState["v1"] = "OPEN"
               /\ sid \in clients["v1"].watchingSessions
               /\ EventsBatchFrame("t1", n) )
             => sent'["v1"] = <<[type |-> "events_batch", sessionId |-> sid,
                                 events |-> Range(nextEv + 1, nextEv + n)]>>
      ]_vars

\* the viewer has just joined an active session that holds events
C26_Witness ==
    /\ Len(sent["v1"]) = 1
    /\ sent["v1"][1].type = "session_joined"
    /\ sent["v1"][1].totalEvents > 0
    /\ sent["v1"][1].isActive
    /\ sent["v1"][1].sessionId \in clients["v1"].watchingSessions

(***************************************************************************)
(* Frames that are not JSON and frames of a type the hub does not know,    *)
(* while time passes.                                                      *)
(***************************************************************************)
FrameConns == {"t1", "v1"}

\* a frame JSON.parse rejects, and a well-formed frame of no known type
OddFrames == {[type |-> "unparsable"], [type |-> "unknown"]}

NextFrames ==
    \/ \E c \in FrameConns : Connect(c)
    \/ \E sid \in ClientIds :
          Frame("t1", [type |-> "session_start", sessionId |-> sid])
    \/ \E sid \in ClientIds :
          Frame("v1", [type |-> "viewer_join_session", sessionId |-> sid])
    \/ \E c \in FrameConns, msg \in OddFrames : Frame(c, msg)
    \/ \E c \in FrameConns : CloseEvent(c)
    \/ Tick
    \/ Microtasks

SpecFrames == InitTime /\ [][NextFrames]_vars

\* C27: a frame that is not JSON is answered with an error message to its
\* sender; the connection stays registered and open and no session, watched
\* set or queue entry changes.  A well-formed frame of unknown type is
\* dropped: no reply, and no change but the sender's lastHeartbeat, which
\* is refreshed.
C27_OddFramesHarmless ==
    [][\A c \in FrameConns :
          /\ (Frame(c, [type |-> "unparsable"]) /\ Registered(c))
                => /\ sent' = [NoSent EXCEPT ![c] =
                         <<[type |-> "error",
                            message |-> "Invalid message format"]>>]
                   /\ UNCHANGED <<clients, order, readyState, sessions,
                                  sessionBatchQueue, queued>>
          /\ (Frame(c, [type |-> "unknown"]) /\ Registered(c))
                => /\ sent' = NoSent
                   /\ clients' = [clients EXCEPT ![c].lastHeartbeat = now]
                   /\ UNCHANGED <<order, readyState, sessions,
                                  sessionBatchQueue, queued>>
      ]_vars

\* a client that has been silent for a while has just been answered with
\* the parse error, its lastHeartbeat not refreshed
C27_Witness ==
    \E c \in FrameConns :
        /\ Registered(c)
        /\ readyState[c] = "OPEN"
        /\ clients[c].lastHeartbeat < now
        /\ sent[c] = <<[type |-> "error", message |-> "Invalid message format"]>>

(***************************************************************************)
(* Claims on shutdown and on retries.                                      *)
(***************************************************************************)
\* C28: shutdown runs hub, registry, final flush and pool close in that
\* order: the pool is not closed while the final flush is in progress, and
\* once shutdown has drained the queue for its final flush no batch is
\* queued any more, not even by the disconnect handler of a connection the
\* hub has closed.
C28_ShutdownOrder ==
    /\ [](pool = "ended" =>
             \A i \in 1..Len(flights) :
                flights[i].caller = "shutdown" => flights[i].late)
    /\ [][proc = "stopping" => queued' = queued]_vars

\* The batcher under a Store that fails for a while and then works: the
\* timer keeps firing, a processBatch that waits for its client gets it,
\* and a transaction that is open again and again is committed in the end.
NextRetry ==
    \/ Connect("t1")
    \/ \E sid \in ClientIds :
          Frame("t1", [type |-> "session_start", sessionId |-> sid])
    \/ BatchTimerFires
    \/ \E i \in 1..Len(flights) : FlightConnected(i)
    \/ \E i \in 1..Len(flights) : FlightCommitted(i)
    \/ \E i \in 1..Len(flights) : FlightRolledBack(i)
    \/ \E i \in 1..Len(flights) : FlightThrew(i)
    \/ PoolEndResolves
    \/ AppCloseResolves

SpecRetry ==
    /\ InitDb
    /\ [][NextRetry]_vars
    /\ WF_vars(BatchTimerFires)
    /\ WF_vars(\E i \in 1..Len(flights) : FlightConnected(i))
    /\ SF_vars(\E i \in 1..Len(flights) : FlightCommitted(i))
    /\ WF_vars(PoolEndResolves)

\* C29: if Store operations fail for a finite period and succeed from then
\* on, and the flush timer keeps firing, every batch that was ever queued
\* is committed in the end (a run that has used up the transactions of the
\* model aside).
C29_RetryCommitsAll ==
    \A k \in 1..MaxQueued :
        (queued >= k) ~> (k \in hist.committed \/ dbClock >= MaxTx)

(***************************************************************************)
(* The events buffer of a session that stays in memory.                    *)
(***************************************************************************)
\* C30: while a session id stays in memory its events buffer changes only by
\* an append at the tail or by the cap trim dropping events from the head;
\* a repeated session_start for an id already in memory leaves the buffered
\* events of that id in place.
C30_BufferOnlyAppendsOrTrims ==
    [][\A sid \in AllIds :
          (sessions[sid] # NoSession /\ sessions'[sid] # NoSession)
          => LET old == sessions[sid].events
                 new == sessions'[sid].events
             IN \E k \in 0..Len(old) :
                   /\ Len(new) >= Len(old) - k
                   /\ SubSeq(new, 1, Len(old) - k) = SubSeq(old, k + 1, Len(old))
                   /\ k > 0 => Len(new) + k > maxEventsPerSession
      ]_vars

(***************************************************************************)
(* The heartbeat check and what refreshes lastHeartbeat.                   *)
(***************************************************************************)
Pings(c) == SelectSeq(sent[c], LAMBDA m : m.type = "ping")

\* C31: a heartbeat check closes a client if and only if it has been silent
\* for more than 60 s (it leaves the clients map and its socket is
\* terminated), and pings every other client whose socket is open; a pong
\* and a parsed frame of a registered client set its lastHeartbeat to now,
\* so a client whose last frame or pong is at most 60 s old survives the
\* check.
C31_HeartbeatClosesOnlySilent ==
    [][ /\ HeartbeatTimerFires =>
             \A c \in Conns : Registered(c) =>
                /\ Stale(c) <=> ~Registered(c)'
                /\ Stale(c) => /\ readyState'[c] = "CLOSING"
                               /\ Len(Pings(c)') = 0
                /\ (~Stale(c) /\ readyState[c] = "OPEN") =>
                      /\ Len(Pings(c)') = 1
                      /\ clients'[c] = clients[c]
                      /\ readyState'[c] = "OPEN"
        /\ \A c \in Conns :
             (PongEvent(c) /\ Registered(c)) =>
                clients'[c] = [clients[c] EXCEPT !.lastHeartbeat = now]
        /\ \A c \in Conns, sid \in ClientIds :
             ( /\ Frame(c, [type |-> "session_start", sessionId |-> sid])
               /\ Registered(c) )
             => clients'[c].lastHeartbeat = now ]_vars

\* C31 witness: the check has just run with the tracker silent for exactly
\* 60 s after an earlier pong (pinged and kept) and the viewer silent for
\* longer (terminated).
C31_Witness ==
    /\ Registered("t1")
    /\ clients["t1"].lastHeartbeat > 0
    /\ now - clients["t1"].lastHeartbeat = HeartbeatTimeout
    /\ Len(Pings("t1")) = 1
    /\ "v1" \in hist.terminated
    /\ readyState["v1"] = "CLOSING"

(***************************************************************************)
(* SpecFlush: one tracker starts a session and sends events and one error; *)
(* the batch timer flushes, and flushes commit or fail and are re-queued.  *)
(***************************************************************************)
NextFlush ==
    \/ Connect("t1")
    \/ \E sid \in ClientIds :
          /\ Registered("t1") /\ clients["t1"].sessionId = NoId
          /\ Frame("t1", [type |-> "session_start", sessionId |-> sid])
    \/ EventsBatchFrame("t1", 1)
    \/ /\ \A sid \in AllIds : OwnsSession("t1", sid) => sessions[sid].errors = <<>>
       /\ Frame("t1", [type |-> "error", data |-> "err"])
    \/ BatchTimerFires
    \/ \E i \in 1..Len(flights) : FlightConnected(i)
    \/ \E i \in 1..Len(flights) : FlightCommitted(i)
    \/ \E i \in 1..Len(flights) : FlightRolledBack(i)

SpecFlush == InitDb /\ [][NextFlush]_vars

\* the session_events rows a transaction begun at stamp writes for entries
EventRowsOf(entries, stamp) ==
    LET full == SelectSeq(entries, LAMBDA b : Len(b.events) > 0)
    IN [k \in 1..Len(full) |-> [session_id |-> full[k].sessionId,
                                events |-> full[k].events,
                                event_count |-> Len(full[k].events),
                                created_at |-> stamp]]

\* the session_errors rows a transaction writes for entries
ErrorRowsOf(entries) ==
    Concat([k \in 1..Len(entries) |->
              [j \in 1..Len(entries[k].errors) |->
                  [session_id |-> entries[k].sessionId,
                   error_data |-> entries[k].errors[j]]]])

\* C32: a flush takes min(queue length, BATCH_SIZE) entries from the head
\* of the queue and leaves the rest as it was; its commit writes, in queue
\* order, one event row for each entry with events and one error row for
\* each error, together with the session rows of its entries; a flush that
\* fails writes nothing; and the Store never holds an event or error row
\* without the session row of its session_id.
C32_FlushAppliesHeadAtomically ==
    /\ [](/\ \A k \in 1..Len(tblEvents) :
                tblSessions[tblEvents[k].session_id] # NoRow
          /\ \A k \in 1..Len(tblErrors) :
                tblSessions[tblErrors[k].session_id] # NoRow)
    /\ [][ /\ BatchTimerFires =>
                LET n == Min(batchSize, Len(sessionBatchQueue))
                IN /\ Len(flights') = Len(flights) + 1
                   /\ flights'[Len(flights')].entries =
                         SubSeq(sessionBatchQueue, 1, n)
                   /\ sessionBatchQueue' =
                         SubSeq(sessionBatchQueue, n + 1, Len(sessionBatchQueue))
           /\ \A i \in 1..Len(flights) :
                FlightCommitted(i) =>
                   /\ tblEvents' = tblEvents \o
                         EventRowsOf(flights[i].entries, flights[i].stamp)
                   /\ tblErrors' = tblErrors \o ErrorRowsOf(flights[i].entries)
                   /\ \A k \in 1..Len(flights[i].entries) :
                         tblSessions'[flights[i].entries[k].sessionId] # NoRow
                   /\ sessionBatchQueue' = sessionBatchQueue
           /\ (\A i \in 1..Len(flights) : ~FlightCommitted(i))
              => /\ tblSessions' = tblSessions
                 /\ tblEvents' = tblEvents
                 /\ tblErrors' = tblErrors ]_vars

\* C32 witness: a flush has failed and was re-queued, and commits since
\* have left an event row and an error row in the Store, each with its
\* session row, while a later entry waits in the queue.
C32_Witness ==
    /\ batchSize = 2
    /\ hist.requeued
    /\ Len(tblEvents) = 1
    /\ Len(tblErrors) = 1
    /\ tblSessions[tblEvents[1].session_id] # NoRow
    /\ Len(sessionBatchQueue) > 0

(***************************************************************************)
(* SpecForward: a tracker reports page events (visibility_change,          *)
(* javascript_error, promise_rejection) before and after it starts a       *)
(* session, while a viewer joins and leaves sessions; the viewer sends     *)
(* such frames too.                                                        *)
(***************************************************************************)
ForwardConns == {"t1", "v1"}

\* the frame types handleMessage passes to handleSessionEvent
SessionEventTypes == {"visibility_change", "javascript_error", "promise_rejection"}

NextForward ==
    \/ \E c \in ForwardConns : Connect(c)
    \/ \E sid \in ClientIds :
          Frame("t1", [type |-> "session_start", sessionId |-> sid])
    \/ \E sid \in ClientIds :
          Frame("t1", [type |-> "session_end", sessionId |-> sid])
    \/ \E c \in ForwardConns, sid \in JoinIds :
          Frame(c, [type |-> "viewer_join_session", sessionId |-> sid])
    \/ \E sid \in JoinIds :
          Frame("v1", [type |-> "viewer_leave_session", sessionId |-> sid])
    \/ \E c \in ForwardConns, t \in SessionEventTypes :
          Frame(c, [type |-> t, data |-> "page"])
    \/ \E c \in ForwardConns : CloseEvent(c)
    \/ \E c \in ForwardConns : CloseFrame(c)
    \/ Microtasks

SpecForward == InitRoles /\ [][NextForward]_vars

\* C33: a visibility_change, javascript_error or promise_rejection frame of
\* a client whose sessionId is s is written, as it came, to every connected
\* viewer whose watched set holds s and to no other socket; the frame of a
\* client without a sessionId is written to no socket.
C33_SessionEventForwarded ==
    [][\A c \in ForwardConns, t \in SessionEventTypes :
          LET msg == [type |-> t, data |-> "page"]
          IN (Frame(c, msg) /\ Registered(c))
             => \A d \in Conns :
                   sent'[d] =
                      IF /\ clients[c].sessionId # NoId
                         /\ Registered(d)
                         /\ clients[d].type = "viewer"
                         /\ readyState[d] = "OPEN"
                         /\ clients[c].sessionId \in clients[d].watchingSessions
                      THEN <<msg>>
                      ELSE <<>>
      ]_vars

\* C33 witness: a page event of the tracker has just reached the viewer
\* that watches its session, and not the tracker, which had joined the
\* session as well.
C33_Witness ==
    \E t \in SessionEventTypes :
        /\ sent["v1"] = <<[type |-> t, data |-> "page"]>>
        /\ sent["t1"] = <<>>
        /\ Registered("t1")
        /\ clients["t1"].sessionId \in clients["t1"].watchingSessions

(***************************************************************************)
(* The broadcasts of the sessionStarted and sessionEnded listeners.        *)
(***************************************************************************)
\* the sockets a broadcast without a filter writes to
OpenViewers ==
    {d \in Conns : /\ Registered(d)
                   /\ clients[d].type = "viewer"
                   /\ readyState[d] = "OPEN"}

\* C34: every createSession writes one session_started frame and every
\* endSession of a session in memory (by a session_end frame or by the
\* close of the owning tracker) writes one session_ended frame to every
\* connected viewer, whatever it watches, and to no other socket; a tracker
\* never receives either frame.
C34_LifecycleBroadcastToAllViewers ==
    /\ [](\A c \in Conns : \A k \in 1..Len(sent[c]) :
             sent[c][k].type \in {"session_started", "session_ended"}
             => ClientType(c) = "viewer")
    /\ [][ /\ \A c \in RoleConns, sid \in ClientIds :
                ( /\ Registered(c)
                  /\ clients[c].type = "tracker"
                  /\ Frame(c, [type |-> "session_start", sessionId |-> sid]) )
                => \A d \in Conns :
                      Frames(d, "session_started")' =
                         IF d \in OpenViewers
                         THEN <<[type |-> "session_started",
                                 sessionId |-> clients'[c].sessionId]>>
                         ELSE <<>>
           /\ \A c \in RoleConns, sid \in ClientIds :
                ( /\ sessions[sid] # NoSession
                  /\ \/ /\ Registered(c)
                        /\ Frame(c, [type |-> "session_end", sessionId |-> sid])
                     \/ OwnsSession(c, sid) /\ CloseEvent(c) )
                => \A d \in Conns :
                      Frames(d, "session_ended")' =
                         IF d \in OpenViewers /\ ~(CloseEvent(d))
                         THEN <<[type |-> "session_ended", sessionId |-> sid]>>
                         ELSE <<>>
       ]_vars

\* C34 witness: the end of a session has just been announced to a viewer
\* that does not watch it, and not to the tracker that owns it.
C34_Witness ==
    \E sid \in ClientIds :
        /\ Frames("v1", "session_ended") =
              <<[type |-> "session_ended", sessionId |-> sid]>>
        /\ Registered("v1")
        /\ sid \notin clients["v1"].watchingSessions
        /\ OwnsSession("t1", sid)
        /\ sent["t1"] = <<>>

(***************************************************************************)
(* SpecIdle: two trackers and a viewer.  Either tracker may send frames    *)
(* before its first session_start, while the other owns a session that the *)
(* viewer watches.                                                         *)
(***************************************************************************)
\* the frames of a tracker that carry no fresh events
IdleFrames ==
    {[type |-> t, data |-> "page"] : t \in SessionEventTypes}
    \cup {[type |-> "error", data |-> "err"],
          [type |-> "events_batch", events |-> <<0>>]}

NextIdle ==
    \/ \E c \in Conns : Connect(c)
    \/ \E sid \in ClientIds :
          Frame("t1", [type |-> "session_start", sessionId |-> sid])
    \/ Frame("t2", [type |-> "session_start", sessionId |-> NoId])
    \/ \E sid \in ClientIds :
          Frame("v1", [type |-> "viewer_join_session", sessionId |-> sid])
    \/ \E c \in Trackers, msg \in IdleFrames : Frame(c, msg)
    \/ \E c \in Trackers : CloseEvent(c)
    \/ Microtasks

SpecIdle == InitRoles /\ [][NextIdle]_vars

\* a registered tracker that has sent no session_start on its connection
Idle(c) ==
    /\ Registered(c)
    /\ clients[c].type = "tracker"
    /\ clients[c].sessionId = NoId

\* C35: the events_batch, error, visibility_change, javascript_error and
\* promise_rejection frames of a tracker that has sent no session_start
\* change no session, queue nothing and write to no socket, and the close
\* of such a tracker ends no session and writes no session_ended.
C35_IdleTrackerHasNoEffect ==
    [][\A c \in Trackers :
          ( /\ Idle(c)
            /\ \/ \E msg \in IdleFrames : Frame(c, msg)
               \/ CloseEvent(c) )
          => /\ sessions' = sessions
             /\ sessionOrder' = sessionOrder
             /\ sessionBatchQueue' = sessionBatchQueue
             /\ queued' = queued
             /\ sent' = NoSent
      ]_vars

\* C35 witness: tracker t2 is connected and has sent no session_start,
\* no id has been minted for it, and the last step wrote to no socket, while
\* tracker t1 owns an active session that the viewer watches
C35_Witness ==
    \E sid \in ClientIds :
        /\ Idle("t2")
        /\ OwnsSession("t1", sid)
        /\ sessions[sid].isActive
        /\ Registered("v1")
        /\ sid \in clients["v1"].watchingSessions
        /\ nextGen = 0
        /\ sent = NoSent

(***************************************************************************)
(* Ownership of sessions among trackers.                                   *)
(***************************************************************************)
\* C36: a session_end frame of tracker b that names the active session
\* owned by another connected tracker a, b holding a different session id
\* or none, leaves the session active and writes no session_ended frame
\* for it.
C36_SessionEndOnlyOwn ==
    [][\A a \in Trackers, b \in Trackers, sid \in AllIds :
          ( /\ a # b
            /\ OwnsSession(a, sid)
            /\ hist.owner[sid] = a
            /\ sessions[sid].isActive
            /\ Registered(b)
            /\ clients[b].sessionId # sid
            /\ Frame(b, [type |-> "session_end", sessionId |-> sid]) )
          => /\ sessions'[sid].isActive
             /\ \A v \in Conns : Len(EndedFrames(v, sid)') = 0
      ]_vars

\* C37: every active session in memory is the sessionId of one connected
\* tracker at most, so that the events_batch frames and the close of one
\* tracker never reach a session another tracker started.
C37_ExclusiveOwnership ==
    \A sid \in AllIds :
        (sessions[sid] # NoSession /\ sessions[sid].isActive)
        => Cardinality({c \in Trackers : /\ Registered(c)
                                         /\ clients[c].type = "tracker"
                                         /\ clients[c].sessionId = sid}) <= 1

\* C38: every active session in memory is the sessionId of some connected
\* tracker: a session is ended when its tracker goes away and when its
\* tracker starts a session under another id.
C38_NoOrphanedActiveSession ==
    \A sid \in AllIds :
        (sessions[sid] # NoSession /\ sessions[sid].isActive)
        => \E c \in Trackers : /\ Registered(c)
                               /\ clients[c].type = "tracker"
                               /\ clients[c].sessionId = sid

\* C39: a session that has been ended is not ended again before its next
\* session_start: the close of the owning tracker after its session_end,
\* and a repeated session_end frame, write no session_ended frame and queue
\* no batch.
C39_EndedOnce ==
    [][\A sid \in AllIds :
          ( /\ sessions[sid] # NoSession
            /\ ~sessions[sid].isActive
            /\ \/ CloseEvent("t1") /\ OwnsSession("t1", sid)
               \/ Frame("t1", [type |-> "session_end", sessionId |-> sid]) )
          => /\ queued' = queued
             /\ \A v \in Conns : Len(EndedFrames(v, sid)') = 0
      ]_vars

====
